---- MODULE Spec2Model ----
(***************************************************************************)
(* A320 electrical distribution (constvoidptr/airbus-systems).             *)
(*                                                                         *)
(* The state is the A320ElectricalCircuit (src/src/a320/mod.rs) together   *)
(* with the values its update() samples: the two engines, the APU, the     *)
(* external power receptacle, the blue hydraulic circuit and the overhead  *)
(* panel.  One Tick is one call of A320ElectricalCircuit::update.          *)
(*                                                                         *)
(* Units: N2 and APU speed are in tenths of a percent (57.5 % = 575), time *)
(* is in whole seconds.  A Current carries its kind and its PowerSource;   *)
(* frequency, potential and amperage are the same constants on every       *)
(* current and are not carried.                                            *)
(***************************************************************************)
EXTENDS Integers, Sequences, FiniteSets, TLC

VARIABLES
    elec,       \* the A320ElectricalCircuit
    engine1,    \* Engine.n2 of engine 1, as last sampled
    engine2,    \* Engine.n2 of engine 2, as last sampled
    apu,        \* AuxiliaryPowerUnit.speed, as last sampled
    ext_pwr,    \* ExternalPowerSource.plugged_in
    hyd,        \* A320HydraulicCircuit.blue_pressurised
    overhead,   \* A320ElectricalOverheadPanel
    pc,         \* "new": constructed, "updated": update() was the last
                \* operation, "injected": a fault or start was injected since
    logic_gate, \* a DelayedTrueLogicGate on its own (shared/mod.rs)
    updates,    \* history: the <<delta, expression_result>> given to logic_gate
    contactor,  \* a Contactor on its own (contactor_tests of lib.rs)
    last_call,  \* history: the last call on contactor, its argument and the
                \* contactor before it
    ac_bus_1_loss, \* history: whether AC BUS 1 was unpowered in the last
                \* tick, and the time elapsed since the tick in which it
                \* became so
    transfer_wait \* history, kept by the specifications that record it:
                \* the earlier losses of AC BUS 1

vars == <<elec, engine1, engine2, apu, ext_pwr, hyd, overhead, pc, logic_gate, updates, contactor, last_call, ac_bus_1_loss, transfer_wait>>

---------------------------------------------------------------------------
(* Bounds of the model *)

\* The delay gate's accumulated duration is followed up to this many seconds.
MaxTrueDuration == 3

\* A delay gate on its own is given at most this many updates.
MaxUpdates == 4

\* A contactor on its own is given feeder lists of at most this length.
MaxFeeders == 2

---------------------------------------------------------------------------
(* Program constants *)

ENGINE_N2_POWER_OUTPUT_THRESHOLD == 575

APU_SPEED_POWER_OUTPUT_THRESHOLD == 575

AC_ESS_FEED_TO_AC_BUS_2_DELAY_IN_SECONDS == 3

---------------------------------------------------------------------------
(* PowerSource and Current *)

PowerSourceNone == <<"None", 0>>

EngineGenerator(n) == <<"EngineGenerator", n>>

ApuGenerator == <<"ApuGenerator", 0>>

External == <<"External", 0>>

EmergencyGenerator == <<"EmergencyGenerator", 0>>

PowerSource ==
    {PowerSourceNone, EngineGenerator(1), EngineGenerator(2), ApuGenerator,
     External, EmergencyGenerator}

CurrentNone == [kind |-> "None", source |-> PowerSourceNone]

Alternating(src) == [kind |-> "Alternating", source |-> src]

Direct(src) == [kind |-> "Direct", source |-> src]

is_alternating(current) == current.kind = "Alternating"

is_powered(current) == current.kind # "None"

is_unpowered(current) == current.kind = "None"

source(current) ==
    IF is_powered(current) THEN current.source ELSE PowerSourceNone

---------------------------------------------------------------------------
(* Contactor *)

\* A faulty constructor: the contactor starts closed.
Contactor_new_closed == [state |-> "Closed", input |-> CurrentNone]

Contactor_new == [state |-> "Open", input |-> CurrentNone]

\* Faulty toggles: the first flips the state when asked to close, the
\* second flips it on every call.
toggle_flipping_when_asked(self, should_be_closed) ==
    [self EXCEPT !.state =
        IF ~should_be_closed THEN self.state
        ELSE IF self.state = "Open" THEN "Closed" ELSE "Open"]

toggle_flipping(self, should_be_closed) ==
    [self EXCEPT !.state = IF self.state = "Open" THEN "Closed" ELSE "Open"]

toggle(self, should_be_closed) ==
    [self EXCEPT !.state =
        IF self.state = "Open" /\ should_be_closed THEN "Closed"
        ELSE IF self.state = "Closed" /\ ~should_be_closed THEN "Open"
        ELSE self.state]

\* A faulty output: the contactor conducts whatever its state.
Contactor_output_whatever_the_state(self) == self.input

Contactor_output(self) ==
    IF self.state = "Closed" THEN self.input ELSE CurrentNone

is_open(self) == self.state = "Open"

is_closed(self) == self.state = "Closed"

---------------------------------------------------------------------------
(* Powerable: feeder resolution.  `outputs` is the sequence of the         *)
(* feeders' output(), in list order.                                       *)

\* A faulty search: the last powered output of the list is taken.
find_powered_from_the_end(outputs) ==
    LET powered == {i \in DOMAIN outputs : outputs[i].kind # "None"}
    IN  IF powered = {} THEN [kind |-> "None", source |-> <<"None", 0>>]
        ELSE outputs[CHOOSE i \in powered : \A j \in powered : i >= j]

RECURSIVE find_powered(_)
find_powered(outputs) ==
    IF outputs = <<>> THEN CurrentNone
    ELSE IF is_powered(Head(outputs)) THEN Head(outputs)
    ELSE find_powered(Tail(outputs))

\* A faulty feeder resolution: the input is kept when no feeder is powered.
powered_by_keeping_the_input(self, outputs) ==
    IF is_powered(find_powered(outputs))
    THEN [self EXCEPT !.input = find_powered(outputs)]
    ELSE self

powered_by(self, outputs) == [self EXCEPT !.input = find_powered(outputs)]

or_powered_by(self, outputs) ==
    IF is_unpowered(self.input)
    THEN [self EXCEPT !.input = find_powered(outputs)]
    ELSE self

---------------------------------------------------------------------------
(* ElectricalBus and TransformerRectifier *)

ElectricalBus_new == [input |-> CurrentNone, failed |-> FALSE]

ElectricalBus_output(self) == IF self.failed THEN CurrentNone ELSE self.input

TransformerRectifier_new == [input |-> CurrentNone, failed |-> FALSE]

TransformerRectifier_output(self) ==
    IF self.failed \/ ~is_alternating(self.input)
    THEN CurrentNone
    ELSE Direct(self.input.source)

fail(self) == [self EXCEPT !.failed = TRUE]

normal(self) == [self EXCEPT !.failed = FALSE]

\* A faulty test: an unpowered transformer rectifier that has not failed
\* does not count.
has_failed_whatever_the_output(tr) == tr.failed

has_failed_or_is_unpowered(tr) ==
    tr.failed \/ is_unpowered(TransformerRectifier_output(tr))

---------------------------------------------------------------------------
(* Generators *)

EngineGenerator_new(number) == [number |-> number, output |-> CurrentNone]

\* A faulty threshold: the generator emits at the threshold itself.
EngineGenerator_update_at_the_threshold(self, n2) ==
    [self EXCEPT !.output =
        IF n2 >= ENGINE_N2_POWER_OUTPUT_THRESHOLD
        THEN Alternating(EngineGenerator(self.number))
        ELSE CurrentNone]

EngineGenerator_update(self, n2) ==
    [self EXCEPT !.output =
        IF n2 > ENGINE_N2_POWER_OUTPUT_THRESHOLD
        THEN Alternating(EngineGenerator(self.number))
        ELSE CurrentNone]

ApuGenerator_new == [output |-> CurrentNone]

ApuGenerator_update(self, speed) ==
    [self EXCEPT !.output =
        IF speed > APU_SPEED_POWER_OUTPUT_THRESHOLD
        THEN Alternating(ApuGenerator)
        ELSE CurrentNone]

ExternalPowerSource_output(plugged_in) ==
    IF plugged_in THEN Alternating(External) ELSE CurrentNone

\* A320HydraulicCircuit::is_blue_pressurised: the circuit is the boolean it
\* fakes.
A320HydraulicCircuit_is_blue_pressurised_as_constructed(hydraulic) == TRUE

A320HydraulicCircuit_is_blue_pressurised(hydraulic) == hydraulic

EmergencyGenerator_new == [running |-> FALSE, is_blue_pressurised |-> FALSE]

EmergencyGenerator_update(self, is_blue_pressurised) ==
    [self EXCEPT !.is_blue_pressurised = is_blue_pressurised]

attempt_start(self) == [self EXCEPT !.running = TRUE]

EmergencyGenerator_output(self) ==
    IF self.running /\ self.is_blue_pressurised
    THEN Alternating(EmergencyGenerator)
    ELSE CurrentNone

---------------------------------------------------------------------------
(* Battery *)

Battery_full(number) ==
    [number |-> number, full |-> TRUE, input |-> CurrentNone]

Battery_empty(number) ==
    [number |-> number, full |-> FALSE, input |-> CurrentNone]

---------------------------------------------------------------------------
(* DelayedTrueLogicGate *)

DelayedTrueLogicGate_new(delay) ==
    [delay |-> delay, expression_result |-> FALSE, true_duration |-> 0]

\* Faulty updates: the first counts the delta of the update in which the
\* expression becomes true; the second keeps the duration over a false
\* expression.
DelayedTrueLogicGate_update_counting_the_first_delta(self, delta, expression_result) ==
    [self EXCEPT
        !.true_duration =
            IF expression_result THEN self.true_duration + delta ELSE 0,
        !.expression_result = expression_result]

DelayedTrueLogicGate_update_keeping_the_duration(self, delta, expression_result) ==
    [self EXCEPT
        !.true_duration =
            IF self.expression_result /\ expression_result
            THEN self.true_duration + delta
            ELSE self.true_duration,
        !.expression_result = expression_result]

DelayedTrueLogicGate_update(self, delta, expression_result) ==
    [self EXCEPT
        !.true_duration =
            IF self.expression_result /\ expression_result
            THEN self.true_duration + delta
            ELSE 0,
        !.expression_result = expression_result]

\* A faulty output: the delay has to be exceeded.
DelayedTrueLogicGate_output_after_the_delay(self) ==
    self.expression_result /\ self.delay < self.true_duration

DelayedTrueLogicGate_output(self) ==
    self.expression_result /\ self.delay <= self.true_duration

---------------------------------------------------------------------------
(* Overhead panel *)

A320ElectricalOverheadPanel_new ==
    [bat_1 |-> "On", bat_2 |-> "On", idg_1 |-> "On", idg_2 |-> "On",
     gen_1 |-> "On", gen_2 |-> "On", apu_gen |-> "On", bus_tie |-> "On",
     ac_ess_feed |-> "Normal", galy_and_cab |-> "On", ext_pwr |-> "On",
     commercial |-> "On"]

is_on(button) == button = "On"

is_normal(button) == button = "Normal"

is_altn(button) == button = "Altn"

---------------------------------------------------------------------------
(* The priority decisions of A320ElectricalCircuit::update *)

\* A faulty decision: GEN 1 is not consulted.
gen_1_provides_power_whatever_the_button(elec_overhead, engine_1_gen) ==
    is_powered(engine_1_gen.output)

gen_1_provides_power(elec_overhead, engine_1_gen) ==
    is_on(elec_overhead.gen_1) /\ is_powered(engine_1_gen.output)

gen_2_provides_power(elec_overhead, engine_2_gen) ==
    is_on(elec_overhead.gen_2) /\ is_powered(engine_2_gen.output)

no_engine_gen_provides_power(g1, g2) == ~g1 /\ ~g2

\* A faulty decision: "and" for "xor".
only_one_engine_gen_is_powered_and(g1, g2) == g1 /\ g2

only_one_engine_gen_is_powered(g1, g2) == g1 # g2

\* Faulty decisions: external power is not suppressed by two engine
\* generators; external power yields to a lone engine generator.
ext_pwr_provides_power_unsuppressed(elec_overhead, plugged_in, g1, g2) ==
    /\ is_on(elec_overhead.ext_pwr)
    /\ is_powered(ExternalPowerSource_output(plugged_in))

ext_pwr_provides_power_without_gen_only(elec_overhead, plugged_in, g1, g2) ==
    /\ is_on(elec_overhead.ext_pwr)
    /\ is_powered(ExternalPowerSource_output(plugged_in))
    /\ no_engine_gen_provides_power(g1, g2)

ext_pwr_provides_power(elec_overhead, plugged_in, g1, g2) ==
    /\ is_on(elec_overhead.ext_pwr)
    /\ is_powered(ExternalPowerSource_output(plugged_in))
    /\ (no_engine_gen_provides_power(g1, g2)
        \/ only_one_engine_gen_is_powered(g1, g2))

\* Faulty decisions: the APU generator does not yield to external power;
\* APU GEN is not consulted.
apu_gen_provides_power_beside_ext(elec_overhead, apu_gen, ext, g1, g2) ==
    /\ is_on(elec_overhead.apu_gen)
    /\ is_powered(apu_gen.output)
    /\ (no_engine_gen_provides_power(g1, g2)
        \/ only_one_engine_gen_is_powered(g1, g2))

apu_gen_provides_power_whatever_the_button(elec_overhead, apu_gen, ext, g1, g2) ==
    /\ is_powered(apu_gen.output)
    /\ ~ext
    /\ (no_engine_gen_provides_power(g1, g2)
        \/ only_one_engine_gen_is_powered(g1, g2))

apu_gen_provides_power(elec_overhead, apu_gen, ext, g1, g2) ==
    /\ is_on(elec_overhead.apu_gen)
    /\ is_powered(apu_gen.output)
    /\ ~ext
    /\ (no_engine_gen_provides_power(g1, g2)
        \/ only_one_engine_gen_is_powered(g1, g2))

apu_or_ext_pwr_provides_power(ext, apu_provides) == ext \/ apu_provides

\* A faulty bus tie decision: the tie no longer closes for a lone engine
\* generator.
bus_tie_closes_without_lone_gen(one_gen, apu_or_ext, gen_n) ==
    apu_or_ext /\ ~gen_n

\* The argument of bus_tie_n_contactor.toggle; gen_n is gen_n_provides_power.
bus_tie_closes(one_gen, apu_or_ext, gen_n) ==
    (one_gen /\ ~apu_or_ext) \/ (apu_or_ext /\ ~gen_n)

\* The feeders of bus_tie_n_contactor (lines 107, 110) and of ac_bus_n
\* (lines 115, 116), as the outputs of the listed conductors.
bus_tie_power_sources(engine_gen_contactor, apu_gen_contactor, ext_pwr_contactor) ==
    <<Contactor_output(engine_gen_contactor),
      Contactor_output(apu_gen_contactor),
      Contactor_output(ext_pwr_contactor)>>

ac_bus_power_sources(engine_gen_contactor, bus_tie_contactor) ==
    <<Contactor_output(engine_gen_contactor),
      Contactor_output(bus_tie_contactor)>>

\* A faulty AC ESS feed decision: contactor 1 asks for ALTN instead of
\* NORMAL.
ac_ess_feed_contactor_1_closes_on_altn(ac_bus_1_output, gate, elec_overhead) ==
    is_powered(ac_bus_1_output)
    /\ (~DelayedTrueLogicGate_output(gate)
        /\ is_altn(elec_overhead.ac_ess_feed))

\* A faulty AC ESS feed decision: contactor 1 does not consult AC ESS FEED.
ac_ess_feed_contactor_1_closes_whatever_the_button(ac_bus_1_output, gate, elec_overhead) ==
    is_powered(ac_bus_1_output) /\ ~DelayedTrueLogicGate_output(gate)

\* A faulty order: the gate is advanced after the toggles, which read it as
\* the previous tick left it.
ac_ess_feed_contactor_delay_logic_gate_advanced_last(gate_before, gate_updated) ==
    gate_before

\* The gate the toggles of lines 123-124 read: line 121 has advanced it.
ac_ess_feed_contactor_delay_logic_gate_at_the_toggles(gate_before, gate_updated) ==
    gate_updated

\* The arguments of ac_ess_feed_contactor_n.toggle (lines 123, 124).
ac_ess_feed_contactor_1_closes(ac_bus_1_output, gate, elec_overhead) ==
    is_powered(ac_bus_1_output)
    /\ (~DelayedTrueLogicGate_output(gate)
        /\ is_normal(elec_overhead.ac_ess_feed))

\* A faulty AC ESS feed decision: contactor 2 closes whenever AC BUS 2 is
\* powered.
ac_ess_feed_contactor_2_closes_when_powered(ac_bus_2_output, gate, elec_overhead) ==
    is_powered(ac_bus_2_output)

\* A faulty AC ESS feed decision: contactor 2 does not ask whether AC BUS 2
\* is powered.
ac_ess_feed_contactor_2_closes_whatever_the_bus(ac_bus_2_output, gate, elec_overhead) ==
    DelayedTrueLogicGate_output(gate) \/ is_altn(elec_overhead.ac_ess_feed)

ac_ess_feed_contactor_2_closes(ac_bus_2_output, gate, elec_overhead) ==
    is_powered(ac_bus_2_output)
    /\ (DelayedTrueLogicGate_output(gate)
        \/ is_altn(elec_overhead.ac_ess_feed))

\* A faulty emergency decision: the contactor closes as soon as one AC bus is
\* unpowered.
emergency_gen_contactor_closes_when_one_is_lost(ac_bus_1_output, ac_bus_2_output) ==
    is_unpowered(ac_bus_1_output) \/ is_unpowered(ac_bus_2_output)

\* The argument of emergency_gen_contactor.toggle (line 131).
emergency_gen_contactor_closes(ac_bus_1_output, ac_bus_2_output) ==
    is_unpowered(ac_bus_1_output) /\ is_unpowered(ac_bus_2_output)

\* A faulty feeder list: the emergency generator contactor is left out.
ac_ess_to_tr_ess_contactor_power_sources_ac_ess_only(ac_ess_bus, emergency_gen_contactor) ==
    <<ElectricalBus_output(ac_ess_bus)>>

\* Line 134.
ac_ess_to_tr_ess_contactor_power_sources(ac_ess_bus, emergency_gen_contactor) ==
    <<ElectricalBus_output(ac_ess_bus),
      Contactor_output(emergency_gen_contactor)>>

\* The arguments of dc_bus_n_tie_contactor.toggle (lines 148, 149).
dc_bus_1_tie_contactor_closes(dc_bus_1_output, dc_bus_2_output) ==
    is_powered(dc_bus_1_output) \/ is_powered(dc_bus_2_output)

\* A faulty DC tie decision: tie 2 waits for both DC buses to be lost.
dc_bus_2_tie_contactor_closes_when_both_lost(dc_bus_1_output, dc_bus_2_output) ==
    is_unpowered(dc_bus_1_output) /\ is_unpowered(dc_bus_2_output)

dc_bus_2_tie_contactor_closes(dc_bus_1_output, dc_bus_2_output) ==
    is_unpowered(dc_bus_1_output) \/ is_unpowered(dc_bus_2_output)

\* A faulty feed of a transformer rectifier: the input of its AC bus, not
\* the output.
tr_power_sources_before_the_failure(ac_bus) == <<ac_bus.input>>

\* The feeders of tr_n.powered_by (lines 118, 119).
tr_power_sources(ac_bus) == <<ElectricalBus_output(ac_bus)>>

\* A faulty battery decision: the contactor closes on a full battery.
battery_contactor_closes_when_full(battery) == battery.full

\* The argument of battery_n_contactor.toggle (lines 161, 162).
battery_contactor_closes(battery) == ~battery.full

---------------------------------------------------------------------------
(* A320ElectricalCircuit *)

A320ElectricalCircuit_new ==
    [engine_1_gen |-> EngineGenerator_new(1),
     engine_1_gen_contactor |-> Contactor_new,
     engine_2_gen |-> EngineGenerator_new(2),
     engine_2_gen_contactor |-> Contactor_new,
     bus_tie_1_contactor |-> Contactor_new,
     bus_tie_2_contactor |-> Contactor_new,
     apu_gen |-> ApuGenerator_new,
     apu_gen_contactor |-> Contactor_new,
     ext_pwr_contactor |-> Contactor_new,
     ac_bus_1 |-> ElectricalBus_new,
     ac_bus_2 |-> ElectricalBus_new,
     ac_ess_bus |-> ElectricalBus_new,
     ac_ess_feed_contactor_1 |-> Contactor_new,
     ac_ess_feed_contactor_2 |-> Contactor_new,
     ac_ess_feed_contactor_delay_logic_gate |->
        DelayedTrueLogicGate_new(AC_ESS_FEED_TO_AC_BUS_2_DELAY_IN_SECONDS),
     tr_1 |-> TransformerRectifier_new,
     tr_2 |-> TransformerRectifier_new,
     tr_ess |-> TransformerRectifier_new,
     ac_ess_to_tr_ess_contactor |-> Contactor_new,
     emergency_gen |-> EmergencyGenerator_new,
     emergency_gen_contactor |-> Contactor_new,
     dc_bus_1 |-> ElectricalBus_new,
     dc_bus_1_tie_contactor |-> Contactor_new,
     dc_bus_2 |-> ElectricalBus_new,
     dc_bus_2_tie_contactor |-> Contactor_new,
     dc_bat_bus |-> ElectricalBus_new,
     battery_1 |-> Battery_full(1),
     battery_1_contactor |-> Contactor_new,
     battery_2 |-> Battery_full(2),
     battery_2_contactor |-> Contactor_new]

\* update(): the circuit after one tick.  A name ending in _<line> is the
\* component as it stands after that line of update(); a name without a
\* suffix is the component as the tick leaves it.
update(self, delta, engine1_n2, engine2_n2, apu_speed, plugged_in, blue_pressurised, elec_overhead) ==
    LET engine_1_gen == EngineGenerator_update(self.engine_1_gen, engine1_n2)
        engine_2_gen == EngineGenerator_update(self.engine_2_gen, engine2_n2)
        apu_gen == ApuGenerator_update(self.apu_gen, apu_speed)
        emergency_gen ==
            EmergencyGenerator_update(self.emergency_gen,
                A320HydraulicCircuit_is_blue_pressurised(blue_pressurised))
        g1 == gen_1_provides_power(elec_overhead, engine_1_gen)
        g2 == gen_2_provides_power(elec_overhead, engine_2_gen)
        one_gen == only_one_engine_gen_is_powered(g1, g2)
        ext == ext_pwr_provides_power(elec_overhead, plugged_in, g1, g2)
        apu_provides ==
            apu_gen_provides_power(elec_overhead, apu_gen, ext, g1, g2)
        apu_or_ext == apu_or_ext_pwr_provides_power(ext, apu_provides)
        \* lines 94-116: the AC buses
        apu_gen_contactor ==
            powered_by(toggle(self.apu_gen_contactor, apu_provides),
                       <<apu_gen.output>>)
        ext_pwr_contactor ==
            powered_by(toggle(self.ext_pwr_contactor, ext),
                       <<ExternalPowerSource_output(plugged_in)>>)
        engine_1_gen_contactor ==
            powered_by(toggle(self.engine_1_gen_contactor, g1),
                       <<engine_1_gen.output>>)
        engine_2_gen_contactor ==
            powered_by(toggle(self.engine_2_gen_contactor, g2),
                       <<engine_2_gen.output>>)
        bus_tie_1_107 ==
            powered_by(toggle(self.bus_tie_1_contactor,
                              bus_tie_closes(one_gen, apu_or_ext, g1)),
                       bus_tie_power_sources(engine_1_gen_contactor,
                                             apu_gen_contactor,
                                             ext_pwr_contactor))
        bus_tie_2_110 ==
            powered_by(toggle(self.bus_tie_2_contactor,
                              bus_tie_closes(one_gen, apu_or_ext, g2)),
                       bus_tie_power_sources(engine_2_gen_contactor,
                                             apu_gen_contactor,
                                             ext_pwr_contactor))
        bus_tie_1_contactor ==
            or_powered_by(bus_tie_1_107, <<Contactor_output(bus_tie_2_110)>>)
        bus_tie_2_contactor ==
            or_powered_by(bus_tie_2_110,
                          <<Contactor_output(bus_tie_1_contactor)>>)
        ac_bus_1 ==
            powered_by(self.ac_bus_1,
                       ac_bus_power_sources(engine_1_gen_contactor,
                                            bus_tie_1_contactor))
        ac_bus_2 ==
            powered_by(self.ac_bus_2,
                       ac_bus_power_sources(engine_2_gen_contactor,
                                            bus_tie_2_contactor))
        ac_bus_1_output == ElectricalBus_output(ac_bus_1)
        ac_bus_2_output == ElectricalBus_output(ac_bus_2)
        \* lines 118-119
        tr_1 == powered_by(self.tr_1, tr_power_sources(ac_bus_1))
        tr_2 == powered_by(self.tr_2, tr_power_sources(ac_bus_2))
        \* lines 121-129: the AC ESS feed
        gate ==
            DelayedTrueLogicGate_update(
                self.ac_ess_feed_contactor_delay_logic_gate, delta,
                is_unpowered(ac_bus_1_output))
        gate_at_the_toggles ==
            ac_ess_feed_contactor_delay_logic_gate_at_the_toggles(
                self.ac_ess_feed_contactor_delay_logic_gate, gate)
        ac_ess_feed_contactor_1 ==
            powered_by(
                toggle(self.ac_ess_feed_contactor_1,
                       ac_ess_feed_contactor_1_closes(ac_bus_1_output,
                                                      gate_at_the_toggles,
                                                      elec_overhead)),
                <<ac_bus_1_output>>)
        ac_ess_feed_contactor_2 ==
            powered_by(
                toggle(self.ac_ess_feed_contactor_2,
                       ac_ess_feed_contactor_2_closes(ac_bus_2_output,
                                                      gate_at_the_toggles,
                                                      elec_overhead)),
                <<ac_bus_2_output>>)
        ac_ess_bus_129 ==
            powered_by(self.ac_ess_bus,
                       <<Contactor_output(ac_ess_feed_contactor_1),
                         Contactor_output(ac_ess_feed_contactor_2)>>)
        \* lines 131-140: the emergency generator and TR ESS
        emergency_gen_contactor ==
            powered_by(
                toggle(self.emergency_gen_contactor,
                       emergency_gen_contactor_closes(ac_bus_1_output,
                                                      ac_bus_2_output)),
                <<EmergencyGenerator_output(emergency_gen)>>)
        ac_ess_to_tr_ess_contactor ==
            toggle(
                powered_by(self.ac_ess_to_tr_ess_contactor,
                           ac_ess_to_tr_ess_contactor_power_sources(
                               ac_ess_bus_129, emergency_gen_contactor)),
                has_failed_or_is_unpowered(tr_1)
                \/ has_failed_or_is_unpowered(tr_2))
        ac_ess_bus ==
            or_powered_by(ac_ess_bus_129,
                          <<Contactor_output(ac_ess_to_tr_ess_contactor)>>)
        tr_ess ==
            powered_by(self.tr_ess,
                       <<Contactor_output(ac_ess_to_tr_ess_contactor),
                         Contactor_output(emergency_gen_contactor)>>)
        \* lines 142-156: the DC buses
        dc_bus_1_142 ==
            powered_by(self.dc_bus_1, <<TransformerRectifier_output(tr_1)>>)
        dc_bus_2_143 ==
            powered_by(self.dc_bus_2, <<TransformerRectifier_output(tr_2)>>)
        dc_bus_1_tie_149 ==
            toggle(
                powered_by(self.dc_bus_1_tie_contactor,
                           <<ElectricalBus_output(dc_bus_1_142)>>),
                dc_bus_1_tie_contactor_closes(
                    ElectricalBus_output(dc_bus_1_142),
                    ElectricalBus_output(dc_bus_2_143)))
        dc_bus_2_tie_149 ==
            toggle(
                powered_by(self.dc_bus_2_tie_contactor,
                           <<ElectricalBus_output(dc_bus_2_143)>>),
                dc_bus_2_tie_contactor_closes(
                    ElectricalBus_output(dc_bus_1_142),
                    ElectricalBus_output(dc_bus_2_143)))
        dc_bat_bus ==
            powered_by(self.dc_bat_bus,
                       <<Contactor_output(dc_bus_1_tie_149),
                         Contactor_output(dc_bus_2_tie_149)>>)
        dc_bus_1_tie_contactor ==
            or_powered_by(dc_bus_1_tie_149,
                          <<ElectricalBus_output(dc_bat_bus)>>)
        dc_bus_2_tie_contactor ==
            or_powered_by(dc_bus_2_tie_149,
                          <<ElectricalBus_output(dc_bat_bus)>>)
        dc_bus_1 ==
            or_powered_by(dc_bus_1_142,
                          <<Contactor_output(dc_bus_1_tie_contactor)>>)
        dc_bus_2 ==
            or_powered_by(dc_bus_2_143,
                          <<Contactor_output(dc_bus_2_tie_contactor)>>)
        \* lines 158-165: the batteries
        battery_1_contactor ==
            toggle(powered_by(self.battery_1_contactor,
                              <<ElectricalBus_output(dc_bat_bus)>>),
                   battery_contactor_closes(self.battery_1))
        battery_2_contactor ==
            toggle(powered_by(self.battery_2_contactor,
                              <<ElectricalBus_output(dc_bat_bus)>>),
                   battery_contactor_closes(self.battery_2))
        battery_1 ==
            powered_by(self.battery_1,
                       <<Contactor_output(battery_1_contactor)>>)
        battery_2 ==
            powered_by(self.battery_2,
                       <<Contactor_output(battery_2_contactor)>>)
    IN  [engine_1_gen |-> engine_1_gen,
         engine_1_gen_contactor |-> engine_1_gen_contactor,
         engine_2_gen |-> engine_2_gen,
         engine_2_gen_contactor |-> engine_2_gen_contactor,
         bus_tie_1_contactor |-> bus_tie_1_contactor,
         bus_tie_2_contactor |-> bus_tie_2_contactor,
         apu_gen |-> apu_gen,
         apu_gen_contactor |-> apu_gen_contactor,
         ext_pwr_contactor |-> ext_pwr_contactor,
         ac_bus_1 |-> ac_bus_1,
         ac_bus_2 |-> ac_bus_2,
         ac_ess_bus |-> ac_ess_bus,
         ac_ess_feed_contactor_1 |-> ac_ess_feed_contactor_1,
         ac_ess_feed_contactor_2 |-> ac_ess_feed_contactor_2,
         ac_ess_feed_contactor_delay_logic_gate |-> gate,
         tr_1 |-> tr_1,
         tr_2 |-> tr_2,
         tr_ess |-> tr_ess,
         ac_ess_to_tr_ess_contactor |-> ac_ess_to_tr_ess_contactor,
         emergency_gen |-> emergency_gen,
         emergency_gen_contactor |-> emergency_gen_contactor,
         dc_bus_1 |-> dc_bus_1,
         dc_bus_1_tie_contactor |-> dc_bus_1_tie_contactor,
         dc_bus_2 |-> dc_bus_2,
         dc_bus_2_tie_contactor |-> dc_bus_2_tie_contactor,
         dc_bat_bus |-> dc_bat_bus,
         battery_1 |-> battery_1,
         battery_1_contactor |-> battery_1_contactor,
         battery_2 |-> battery_2,
         battery_2_contactor |-> battery_2_contactor]

---------------------------------------------------------------------------
(* The sampled values and the operations on them *)

\* An engine or the APU is stopped or runs one percent above the threshold.
stopped == 0

running_engine == ENGINE_N2_POWER_OUTPUT_THRESHOLD + 10

running_apu == APU_SPEED_POWER_OUTPUT_THRESHOLD + 10

\* The time steps of a tick: no time at all, or the AC ESS feed delay
\* (run_waiting_for: a tick of 0 s, then a tick of the delay).
Dts == {0, AC_ESS_FEED_TO_AC_BUS_2_DELAY_IN_SECONDS}

\* The values update() samples; between two ticks at most one of them
\* changes.  "none" leaves them all as they were.
Inputs ==
    {"none", "engine1", "engine2", "apu", "ext_pwr", "hyd", "gen_1", "gen_2",
     "apu_gen", "ext_pwr_button", "ac_ess_feed"}

other_ratio(r, run) == IF r = stopped THEN run ELSE stopped

push(button) == IF button = "On" THEN "Off" ELSE "On"

push_ac_ess_feed(button) == IF button = "Normal" THEN "Altn" ELSE "Normal"

changed_overhead(oh, which) ==
    CASE which = "gen_1" -> [oh EXCEPT !.gen_1 = push(@)]
      [] which = "gen_2" -> [oh EXCEPT !.gen_2 = push(@)]
      [] which = "apu_gen" -> [oh EXCEPT !.apu_gen = push(@)]
      [] which = "ext_pwr_button" -> [oh EXCEPT !.ext_pwr = push(@)]
      [] which = "ac_ess_feed" ->
            [oh EXCEPT !.ac_ess_feed = push_ac_ess_feed(@)]
      [] OTHER -> oh

\* The history of AC BUS 1 after a tick of time step dt that left it
\* unpowered or not: the tick in which it becomes unpowered is time 0, every
\* later tick in which it is still unpowered adds its time step.  reverted
\* tells the tick found the AC ESS feed transferred to AC BUS 2 and left
\* AC BUS 1 powered.
ac_bus_1_loss_after(loss, dt, is_lost, was_transferred) ==
    [unpowered |-> is_lost,
     elapsed |-> IF is_lost /\ loss.unpowered THEN loss.elapsed + dt ELSE 0,
     reverted |-> was_transferred /\ ~is_lost]

\* The AC ESS feed has transferred to AC BUS 2: AC BUS 1 has been unpowered
\* for the delay and AC ESS feed contactor 2 is closed.
Transferred ==
    /\ ac_bus_1_loss.unpowered
    /\ ac_bus_1_loss.elapsed >= AC_ESS_FEED_TO_AC_BUS_2_DELAY_IN_SECONDS
    /\ is_closed(elec.ac_ess_feed_contactor_2)

\* No loss of AC BUS 1 was recorded.
NoWait == [interrupted |-> 0, both |-> FALSE, both_lost |-> 0, ac_bus_2_back |-> FALSE]

circuit_vars == <<elec, engine1, engine2, apu, ext_pwr, hyd, overhead, pc, ac_bus_1_loss, transfer_wait>>

InitCircuit ==
    /\ elec = A320ElectricalCircuit_new
    /\ engine1 = stopped
    /\ engine2 = stopped
    /\ apu = stopped
    /\ ext_pwr = FALSE
    /\ hyd = TRUE
    /\ overhead = A320ElectricalOverheadPanel_new
    /\ pc = "new"
    /\ ac_bus_1_loss =
            [unpowered |-> FALSE, elapsed |-> 0, reverted |-> FALSE]
    /\ transfer_wait = NoWait

\* No call was made on the contactor on its own.
NoCall == [op |-> "new", arg |-> FALSE, before |-> Contactor_new]

Init ==
    /\ InitCircuit
    /\ logic_gate = DelayedTrueLogicGate_new(AC_ESS_FEED_TO_AC_BUS_2_DELAY_IN_SECONDS)
    /\ updates = <<>>
    /\ contactor = Contactor_new
    /\ last_call = NoCall

\* One tick with the given samples: update() is called with time step dt.
RunTick(engine1_n2, engine2_n2, apu_speed, plugged_in, blue_pressurised, elec_overhead, dt) ==
    /\ engine1' = engine1_n2
    /\ engine2' = engine2_n2
    /\ apu' = apu_speed
    /\ ext_pwr' = plugged_in
    /\ hyd' = blue_pressurised
    /\ overhead' = elec_overhead
    /\ elec' = update(elec, dt, engine1', engine2', apu', ext_pwr', hyd',
                      overhead')
    /\ elec'.ac_ess_feed_contactor_delay_logic_gate.true_duration
            <= MaxTrueDuration
    /\ pc' = "updated"
    /\ ac_bus_1_loss' =
            ac_bus_1_loss_after(ac_bus_1_loss, dt,
                is_unpowered(ElectricalBus_output(elec'.ac_bus_1)),
                Transferred)
    /\ UNCHANGED <<logic_gate, updates, contactor, last_call>>

\* The same, the earlier losses of AC BUS 1 not being recorded.
RunWith(engine1_n2, engine2_n2, apu_speed, plugged_in, blue_pressurised, elec_overhead, dt) ==
    /\ RunTick(engine1_n2, engine2_n2, apu_speed, plugged_in, blue_pressurised, elec_overhead, dt)
    /\ UNCHANGED transfer_wait

\* One tick: the host changes `which`, then calls update() with time step dt.
Run(which, dt) ==
    RunWith(IF which = "engine1" THEN other_ratio(engine1, running_engine) ELSE engine1,
            IF which = "engine2" THEN other_ratio(engine2, running_engine) ELSE engine2,
            IF which = "apu" THEN other_ratio(apu, running_apu) ELSE apu,
            IF which = "ext_pwr" THEN ~ext_pwr ELSE ext_pwr,
            IF which = "hyd" THEN ~hyd ELSE hyd,
            changed_overhead(overhead, which),
            dt)

Tick == \E which \in Inputs, dt \in Dts : Run(which, dt)

UNCHANGED_inputs == UNCHANGED <<engine1, engine2, apu, ext_pwr, hyd, overhead, logic_gate, updates, contactor, last_call, ac_bus_1_loss, transfer_wait>>

\* ElectricalBus::fail / normal on AC BUS 1 and AC BUS 2.  A call that
\* changes nothing (fail on a failed bus) is a stuttering step.
FailAcBus1 ==
    /\ ~elec.ac_bus_1.failed
    /\ elec' = [elec EXCEPT !.ac_bus_1 = fail(@)]
    /\ pc' = "injected" /\ UNCHANGED_inputs

FailAcBus2 ==
    /\ ~elec.ac_bus_2.failed
    /\ elec' = [elec EXCEPT !.ac_bus_2 = fail(@)]
    /\ pc' = "injected" /\ UNCHANGED_inputs

NormalAcBus1 ==
    /\ elec.ac_bus_1.failed
    /\ elec' = [elec EXCEPT !.ac_bus_1 = normal(@)]
    /\ pc' = "injected" /\ UNCHANGED_inputs

NormalAcBus2 ==
    /\ elec.ac_bus_2.failed
    /\ elec' = [elec EXCEPT !.ac_bus_2 = normal(@)]
    /\ pc' = "injected" /\ UNCHANGED_inputs

\* TransformerRectifier::fail / normal on TR 1 and TR 2.
FailTr1 ==
    /\ ~elec.tr_1.failed
    /\ elec' = [elec EXCEPT !.tr_1 = fail(@)]
    /\ pc' = "injected" /\ UNCHANGED_inputs

FailTr2 ==
    /\ ~elec.tr_2.failed
    /\ elec' = [elec EXCEPT !.tr_2 = fail(@)]
    /\ pc' = "injected" /\ UNCHANGED_inputs

NormalTr1 ==
    /\ elec.tr_1.failed
    /\ elec' = [elec EXCEPT !.tr_1 = normal(@)]
    /\ pc' = "injected" /\ UNCHANGED_inputs

NormalTr2 ==
    /\ elec.tr_2.failed
    /\ elec' = [elec EXCEPT !.tr_2 = normal(@)]
    /\ pc' = "injected" /\ UNCHANGED_inputs

\* EmergencyGenerator::attempt_start.
AttemptStart ==
    /\ ~elec.emergency_gen.running
    /\ elec' = [elec EXCEPT !.emergency_gen = attempt_start(@)]
    /\ pc' = "injected" /\ UNCHANGED_inputs

\* The AC network: every sampled value changes, AC BUS 1 and AC BUS 2 fail
\* and recover, the emergency generator is started.
Next ==
    \/ Tick
    \/ FailAcBus1
    \/ FailAcBus2
    \/ NormalAcBus1
    \/ NormalAcBus2
    \/ AttemptStart

Spec == Init /\ [][Next]_vars

\* The DC network: every sampled value changes, TR 1 and TR 2 fail and
\* recover.
NextTr ==
    \/ Tick
    \/ FailTr1
    \/ FailTr2
    \/ NormalTr1
    \/ NormalTr2

SpecTr == Init /\ [][NextTr]_vars

\* The AC ESS feed: time advances by whole seconds up to the delay, the
\* engines, the blue hydraulic circuit and AC ESS FEED change, AC BUS 1 fails
\* and recovers, the emergency generator is started.
FineDts == 0..AC_ESS_FEED_TO_AC_BUS_2_DELAY_IN_SECONDS

EssInputs == {"none", "engine1", "engine2", "hyd", "ac_ess_feed"}

TickEss == \E which \in EssInputs, dt \in FineDts : Run(which, dt)

NextEss ==
    \/ TickEss
    \/ FailAcBus1
    \/ NormalAcBus1
    \/ AttemptStart

SpecEss == Init /\ [][NextEss]_vars

\* The loss of both AC buses: AC BUS 1 and AC BUS 2 fail and recover, the
\* emergency generator is started, with the time steps of SpecEss.
NextBus ==
    \/ TickEss
    \/ FailAcBus1
    \/ FailAcBus2
    \/ NormalAcBus1
    \/ NormalAcBus2
    \/ AttemptStart

SpecBus == Init /\ [][NextBus]_vars

\* The wait for the transfer of the AC ESS feed, interrupted: the engines and
\* AC ESS FEED change, AC BUS 1 fails and recovers, with the time steps of
\* SpecEss; the wait that a tick with AC BUS 1 powered interrupts is
\* recorded.
WaitInputs == {"none", "engine1", "engine2", "ac_ess_feed"}

\* interrupted: the length of the wait that a tick with AC BUS 1 powered
\* interrupted; both: AC BUS 1 and AC BUS 2 were both unpowered in the last
\* tick; both_lost: the time accumulated over the ticks in which both stayed
\* unpowered; ac_bus_2_back: the last tick is the first with AC BUS 2 powered
\* after that, AC BUS 1 being still unpowered.
transfer_wait_after(wait, loss, is_lost, ac_bus_2_is_lost, dt) ==
    [interrupted |->
        IF loss.unpowered /\ ~is_lost THEN loss.elapsed ELSE wait.interrupted,
     both |-> is_lost /\ ac_bus_2_is_lost,
     both_lost |->
        IF is_lost /\ ac_bus_2_is_lost
        THEN (IF wait.both THEN wait.both_lost + dt ELSE 0)
        ELSE IF is_lost /\ wait.both THEN wait.both_lost ELSE 0,
     ac_bus_2_back |-> wait.both /\ is_lost /\ ~ac_bus_2_is_lost]

RunRecording(which, dt) ==
    /\ RunTick(IF which = "engine1" THEN other_ratio(engine1, running_engine) ELSE engine1,
               IF which = "engine2" THEN other_ratio(engine2, running_engine) ELSE engine2,
               apu, ext_pwr, hyd, changed_overhead(overhead, which), dt)
    /\ transfer_wait' =
            transfer_wait_after(transfer_wait, ac_bus_1_loss,
                is_unpowered(ElectricalBus_output(elec'.ac_bus_1)),
                is_unpowered(ElectricalBus_output(elec'.ac_bus_2)), dt)

TickWait == \E which \in WaitInputs, dt \in FineDts : RunRecording(which, dt)

NextWait ==
    \/ TickWait
    \/ FailAcBus1
    \/ NormalAcBus1

SpecWait == Init /\ [][NextWait]_vars

\* The generators' thresholds: the engines and the APU are sampled at, just
\* above and one percent around the threshold (update_above_threshold and
\* update_below_threshold of the generators' tests), in tenths of a percent.
N2Samples ==
    {stopped, ENGINE_N2_POWER_OUTPUT_THRESHOLD - 10, ENGINE_N2_POWER_OUTPUT_THRESHOLD,
     ENGINE_N2_POWER_OUTPUT_THRESHOLD + 1, ENGINE_N2_POWER_OUTPUT_THRESHOLD + 10}

SpeedSamples ==
    {stopped, APU_SPEED_POWER_OUTPUT_THRESHOLD - 10, APU_SPEED_POWER_OUTPUT_THRESHOLD,
     APU_SPEED_POWER_OUTPUT_THRESHOLD + 1, APU_SPEED_POWER_OUTPUT_THRESHOLD + 10}

TickSampling == \E engine1_n2 \in N2Samples, engine2_n2 \in N2Samples, apu_speed \in SpeedSamples, dt \in Dts : RunWith(engine1_n2, engine2_n2, apu_speed, ext_pwr, hyd, overhead, dt)

NextSampling == TickSampling

SpecSampling == Init /\ [][NextSampling]_vars

\* The batteries: empty_battery_n of the tester puts Battery::empty(n) in
\* place of battery n.
EmptyBattery1 ==
    /\ elec.battery_1 # Battery_empty(1)
    /\ elec' = [elec EXCEPT !.battery_1 = Battery_empty(1)]
    /\ pc' = "injected" /\ UNCHANGED_inputs

EmptyBattery2 ==
    /\ elec.battery_2 # Battery_empty(2)
    /\ elec' = [elec EXCEPT !.battery_2 = Battery_empty(2)]
    /\ pc' = "injected" /\ UNCHANGED_inputs

BatInputs == {"none", "engine1", "engine2", "ext_pwr", "gen_1", "gen_2"}

TickBat == \E which \in BatInputs, dt \in Dts : Run(which, dt)

NextBat ==
    \/ TickBat
    \/ EmptyBattery1
    \/ EmptyBattery2

SpecBat == Init /\ [][NextBat]_vars

\* The AC sources: the engines, the APU and external power start and stop,
\* GEN 1, GEN 2, APU GEN and EXT PWR are pushed.
SourceInputs == {"engine1", "engine2", "apu", "ext_pwr", "gen_1", "gen_2", "apu_gen", "ext_pwr_button"}

TickSources == \E which \in SourceInputs, dt \in Dts : Run(which, dt)

NextSources == TickSources

SpecSources == Init /\ [][NextSources]_vars

\* Histories of every kind: the engines, external power, the blue hydraulic
\* circuit and AC ESS FEED change, AC BUS 1 and TR 1 fail and recover,
\* battery 1 is emptied, the emergency generator is started.
HistoryInputs == {"none", "engine1", "engine2", "ext_pwr", "hyd", "ac_ess_feed"}

TickHistory == \E which \in HistoryInputs, dt \in Dts : Run(which, dt)

NextHistory ==
    \/ TickHistory
    \/ FailAcBus1
    \/ NormalAcBus1
    \/ FailTr1
    \/ NormalTr1
    \/ EmptyBattery1
    \/ AttemptStart

SpecHistory == Init /\ [][NextHistory]_vars

---------------------------------------------------------------------------
(* A DelayedTrueLogicGate on its own, as delayed_true_logic_gate_tests of
   shared/mod.rs drive it.  Time is in tenths of a second here: the gate
   only adds and compares durations. *)

GateDelays == {0, 1, 10}

GateDeltas == {0, 1, 2, 8, 9, 10}

InitGate ==
    /\ InitCircuit
    /\ \E delay \in GateDelays : logic_gate = DelayedTrueLogicGate_new(delay)
    /\ updates = <<>>
    /\ contactor = Contactor_new
    /\ last_call = NoCall

\* gate.update(&update_context(delta), expression_result)
GateUpdate(delta, expression_result) ==
    /\ Len(updates) < MaxUpdates
    /\ logic_gate' = DelayedTrueLogicGate_update(logic_gate, delta, expression_result)
    /\ updates' = Append(updates, <<delta, expression_result>>)
    /\ UNCHANGED <<circuit_vars, contactor, last_call>>

NextGate == \E delta \in GateDeltas, expression_result \in BOOLEAN : GateUpdate(delta, expression_result)

SpecGate == InitGate /\ [][NextGate]_vars

\* UpdateContext::new takes any Time: the gate is also given deltas below 0.
AnyDeltas == {-10, -1, 0, 1, 10}

NextGateAnyDelta == \E delta \in AnyDeltas, expression_result \in BOOLEAN : GateUpdate(delta, expression_result)

SpecGateAnyDelta == InitGate /\ [][NextGateAnyDelta]_vars

---------------------------------------------------------------------------
(* A Contactor on its own, as contactor_tests of lib.rs drive it *)

\* open_contactor() and closed_contactor() of the tests.
open_contactor == [Contactor_new EXCEPT !.state = "Open"]

closed_contactor == [Contactor_new EXCEPT !.state = "Closed"]

\* What a feeder may output: Powerless, Powered, and currents of other
\* kinds and sources.
FeederOutputs ==
    {CurrentNone, Alternating(ApuGenerator), Alternating(EngineGenerator(1)),
     Direct(ApuGenerator), Direct(External)}

RECURSIVE FeederLists(_)
FeederLists(n) ==
    IF n = 0 THEN {<<>>}
    ELSE FeederLists(n - 1) \cup
         {Append(list, output) : list \in FeederLists(n - 1), output \in FeederOutputs}

InitContactor ==
    /\ InitCircuit
    /\ logic_gate = DelayedTrueLogicGate_new(AC_ESS_FEED_TO_AC_BUS_2_DELAY_IN_SECONDS)
    /\ updates = <<>>
    /\ contactor \in {open_contactor, closed_contactor}
    /\ last_call = NoCall

\* contactor.toggle(should_be_closed)
ContactorToggle(should_be_closed) ==
    /\ contactor' = toggle(contactor, should_be_closed)
    /\ last_call' = [op |-> "toggle", arg |-> should_be_closed, before |-> contactor]
    /\ UNCHANGED <<circuit_vars, logic_gate, updates>>

\* contactor.powered_by(feeders), given the feeders' outputs in list order
ContactorPoweredBy(outputs) ==
    /\ contactor' = powered_by(contactor, outputs)
    /\ last_call' = [op |-> "powered_by", arg |-> outputs, before |-> contactor]
    /\ UNCHANGED <<circuit_vars, logic_gate, updates>>

NextContactor ==
    \/ \E should_be_closed \in BOOLEAN : ContactorToggle(should_be_closed)
    \/ \E outputs \in FeederLists(MaxFeeders) : ContactorPoweredBy(outputs)

SpecContactor == InitContactor /\ [][NextContactor]_vars

---------------------------------------------------------------------------
(* What the host observes (the output accessors of the circuit) *)

ac_bus_1_output == ElectricalBus_output(elec.ac_bus_1)

ac_bus_2_output == ElectricalBus_output(elec.ac_bus_2)

ac_ess_bus_output == ElectricalBus_output(elec.ac_ess_bus)

tr_1_output == TransformerRectifier_output(elec.tr_1)

tr_2_output == TransformerRectifier_output(elec.tr_2)

tr_ess_output == TransformerRectifier_output(elec.tr_ess)

dc_bus_1_output == ElectricalBus_output(elec.dc_bus_1)

dc_bus_2_output == ElectricalBus_output(elec.dc_bus_2)

dc_bat_bus_output == ElectricalBus_output(elec.dc_bat_bus)

---------------------------------------------------------------------------
(* The vocabulary of the properties, in terms of what the host gave the
   last tick *)

\* The state is the one a tick left (no failure injected since).
Updated == pc = "updated"

Engine1Running == engine1 > ENGINE_N2_POWER_OUTPUT_THRESHOLD

Engine2Running == engine2 > ENGINE_N2_POWER_OUTPUT_THRESHOLD

ApuRunning == apu > APU_SPEED_POWER_OUTPUT_THRESHOLD

Gen1Available == is_on(overhead.gen_1) /\ Engine1Running

Gen2Available == is_on(overhead.gen_2) /\ Engine2Running

ApuAvailable == is_on(overhead.apu_gen) /\ ApuRunning

ExtAvailable == is_on(overhead.ext_pwr) /\ ext_pwr

DefaultPanel == overhead = A320ElectricalOverheadPanel_new

NoFailure ==
    /\ ~elec.ac_bus_1.failed /\ ~elec.ac_bus_2.failed
    /\ ~elec.ac_ess_bus.failed
    /\ ~elec.tr_1.failed /\ ~elec.tr_2.failed /\ ~elec.tr_ess.failed
    /\ ~elec.dc_bus_1.failed /\ ~elec.dc_bus_2.failed
    /\ ~elec.dc_bat_bus.failed

\* The sources on (AC BUS 1, AC BUS 2, AC ESS BUS, TR 1, TR 2, TR ESS,
\* DC BUS 1, DC BUS 2, DC BAT BUS).
Sources ==
    <<source(ac_bus_1_output), source(ac_bus_2_output),
      source(ac_ess_bus_output), source(tr_1_output), source(tr_2_output),
      source(tr_ess_output), source(dc_bus_1_output),
      source(dc_bus_2_output), source(dc_bat_bus_output)>>

\* The sources that are running, external power apart.
RunningSources ==
    (IF Engine1Running THEN {EngineGenerator(1)} ELSE {})
    \cup (IF Engine2Running THEN {EngineGenerator(2)} ELSE {})
    \cup (IF ApuRunning THEN {ApuGenerator} ELSE {})

---------------------------------------------------------------------------
(* Properties *)

NormalConfiguration ==
    /\ Updated /\ Engine1Running /\ Engine2Running /\ ~ApuRunning
    /\ ~ext_pwr /\ DefaultPanel /\ NoFailure

\* C1: after any tick in which both engines are above the N2 threshold, the
\* APU is stopped, external power is unplugged, the overhead panel is at its
\* defaults and no bus or TR is failed, the sources on (AC BUS 1, AC BUS 2,
\* AC ESS BUS, TR 1, TR 2, TR ESS, DC BUS 1, DC BUS 2, DC BAT BUS) are
\* (EG1, EG2, EG1, EG1, EG2, None, EG1, EG2, EG1).
C1_NormalConfiguration ==
    NormalConfiguration =>
        Sources = <<EngineGenerator(1), EngineGenerator(2),
                    EngineGenerator(1), EngineGenerator(1),
                    EngineGenerator(2), PowerSourceNone,
                    EngineGenerator(1), EngineGenerator(2),
                    EngineGenerator(1)>>

\* The normal configuration, reached after the emergency generator was
\* started in some earlier configuration.
C1_Witness ==
    /\ NormalConfiguration
    /\ elec.emergency_gen.running
    /\ source(ac_ess_bus_output) = EngineGenerator(1)
    /\ is_unpowered(tr_ess_output)

SingleSourceConfiguration ==
    /\ Updated /\ DefaultPanel /\ NoFailure /\ ~ext_pwr
    /\ Cardinality(RunningSources) = 1

\* C2: after a tick with default overhead panel and no failures in which
\* exactly one of engine 1, engine 2 and the APU is running and external
\* power is unplugged, AC BUS 1, AC BUS 2, AC ESS BUS, TR 1, TR 2, DC BUS 1,
\* DC BUS 2 and DC BAT BUS all carry that one source and TR ESS is
\* unpowered.
C2_SingleSource ==
    SingleSourceConfiguration =>
        \A s \in RunningSources :
            Sources = <<s, s, s, s, s, PowerSourceNone, s, s, s>>

\* Only engine 2 runs: AC BUS 1 is fed through both bus ties.
C2_Witness ==
    /\ SingleSourceConfiguration
    /\ RunningSources = {EngineGenerator(2)}
    /\ source(ac_bus_1_output) = EngineGenerator(2)

\* Both engine generators feed their AC buses and nothing but TR 1 and TR 2
\* may have failed.
BothGensFeedTheirAcBuses ==
    /\ Updated /\ Gen1Available /\ Gen2Available
    /\ ~elec.ac_bus_1.failed /\ ~elec.ac_bus_2.failed
    /\ ~elec.ac_ess_bus.failed /\ ~elec.tr_ess.failed
    /\ ~elec.dc_bus_1.failed /\ ~elec.dc_bus_2.failed
    /\ ~elec.dc_bat_bus.failed

\* The DC side of a TR fault: (a) TR 1 failed, (b) TR 2 failed, (c) both.
TrFaultDcSide ==
    /\ (elec.tr_1.failed /\ ~elec.tr_2.failed) =>
            /\ is_unpowered(tr_1_output)
            /\ source(tr_2_output) = EngineGenerator(2)
            /\ source(dc_bus_1_output) = EngineGenerator(2)
            /\ source(dc_bus_2_output) = EngineGenerator(2)
            /\ source(dc_bat_bus_output) = EngineGenerator(2)
    /\ (~elec.tr_1.failed /\ elec.tr_2.failed) =>
            /\ source(tr_1_output) = EngineGenerator(1)
            /\ is_unpowered(tr_2_output)
            /\ source(dc_bus_1_output) = EngineGenerator(1)
            /\ source(dc_bus_2_output) = EngineGenerator(1)
            /\ source(dc_bat_bus_output) = EngineGenerator(1)
    /\ (elec.tr_1.failed /\ elec.tr_2.failed) =>
            /\ is_unpowered(dc_bus_1_output)
            /\ is_unpowered(dc_bus_2_output)
            /\ is_unpowered(dc_bat_bus_output)

\* C3 as stated: with both engine generators feeding their AC buses, (a) TR 1
\* failed gives TR 1 = None, TR 2 = EG2, DC BUS 1 = DC BUS 2 = DC BAT BUS =
\* EG2; (b) TR 2 failed gives TR 1 = EG1, TR 2 = None, the three DC buses =
\* EG1; (c) both failed gives the three DC buses unpowered; in all three
\* cases AC BUS 1 = EG1, AC BUS 2 = EG2, AC ESS BUS = EG1 and TR ESS = EG1.
C3_TrFaultRerouting_AsStated ==
    (BothGensFeedTheirAcBuses /\ (elec.tr_1.failed \/ elec.tr_2.failed)) =>
        /\ TrFaultDcSide
        /\ source(ac_bus_1_output) = EngineGenerator(1)
        /\ source(ac_bus_2_output) = EngineGenerator(2)
        /\ source(ac_ess_bus_output) = EngineGenerator(1)
        /\ source(tr_ess_output) = EngineGenerator(1)

\* C3, amended: with both engine generators feeding their AC buses, the DC
\* side is as stated in (a), (b) and (c), AC BUS 1 = EG1 and AC BUS 2 = EG2;
\* AC ESS BUS and TR ESS both show EG1 when AC ESS FEED is at NORMAL, and
\* both show EG2 when it is at ALTN.
C3_TrFaultRerouting ==
    (BothGensFeedTheirAcBuses /\ (elec.tr_1.failed \/ elec.tr_2.failed)) =>
        /\ TrFaultDcSide
        /\ source(ac_bus_1_output) = EngineGenerator(1)
        /\ source(ac_bus_2_output) = EngineGenerator(2)
        /\ is_normal(overhead.ac_ess_feed) =>
                /\ source(ac_ess_bus_output) = EngineGenerator(1)
                /\ source(tr_ess_output) = EngineGenerator(1)
        /\ is_altn(overhead.ac_ess_feed) =>
                /\ source(ac_ess_bus_output) = EngineGenerator(2)
                /\ source(tr_ess_output) = EngineGenerator(2)

\* TR 1 alone has failed: DC BUS 1 is fed from TR 2 through the DC ties.
C3_Witness ==
    /\ BothGensFeedTheirAcBuses
    /\ elec.tr_1.failed /\ ~elec.tr_2.failed
    /\ is_normal(overhead.ac_ess_feed)
    /\ source(dc_bus_1_output) = EngineGenerator(2)
    /\ source(tr_ess_output) = EngineGenerator(1)

\* AC BUS 1 and AC BUS 2 are both unpowered, the emergency generator has
\* been started and blue hydraulic is pressurised.
EmergencyCase ==
    /\ Updated
    /\ is_unpowered(ac_bus_1_output) /\ is_unpowered(ac_bus_2_output)
    /\ elec.emergency_gen.running /\ hyd

\* C4: after any tick in which AC BUS 1 and AC BUS 2 are both unpowered and
\* the emergency generator has been started with blue hydraulic
\* pressurised, AC ESS BUS and TR ESS both show EmergencyGenerator, while
\* TR 1, TR 2, DC BUS 1, DC BUS 2 and DC BAT BUS are unpowered.
C4_EmergencyPath ==
    EmergencyCase =>
        /\ source(ac_ess_bus_output) = EmergencyGenerator
        /\ source(tr_ess_output) = EmergencyGenerator
        /\ is_unpowered(tr_1_output) /\ is_unpowered(tr_2_output)
        /\ is_unpowered(dc_bus_1_output) /\ is_unpowered(dc_bus_2_output)
        /\ is_unpowered(dc_bat_bus_output)

\* Both AC buses have failed while both engines run.
C4_Witness ==
    /\ EmergencyCase
    /\ Engine1Running /\ Engine2Running
    /\ elec.ac_bus_1.failed /\ elec.ac_bus_2.failed
    /\ is_closed(elec.emergency_gen_contactor)
    /\ source(tr_ess_output) = EmergencyGenerator

\* C5: after any tick in which both engine generators are available (GEN n
\* on and generator n emitting, n = 1, 2), APU_GEN_CT, EXT_PWR_CT, BUS_TIE_1
\* and BUS_TIE_2 are all open, AC BUS 1 shows EG1 and AC BUS 2 shows EG2
\* (when not failed), whatever the APU, external power and their
\* pushbuttons are.
C5_EngineGeneratorPriority ==
    (Updated /\ Gen1Available /\ Gen2Available) =>
        /\ is_open(elec.apu_gen_contactor)
        /\ is_open(elec.ext_pwr_contactor)
        /\ is_open(elec.bus_tie_1_contactor)
        /\ is_open(elec.bus_tie_2_contactor)
        /\ ~elec.ac_bus_1.failed =>
                source(ac_bus_1_output) = EngineGenerator(1)
        /\ ~elec.ac_bus_2.failed =>
                source(ac_bus_2_output) = EngineGenerator(2)

\* Both engine generators, the APU generator and external power are all
\* available, and AC BUS 2 has failed.
C5_Witness ==
    /\ Updated /\ Gen1Available /\ Gen2Available
    /\ ApuAvailable /\ ExtAvailable
    /\ elec.ac_bus_2.failed
    /\ is_open(elec.ext_pwr_contactor)
    /\ source(ac_bus_1_output) = EngineGenerator(1)

\* Exactly one engine generator is available.
OneGenAvailable == Updated /\ (Gen1Available # Gen2Available)

\* The source the bus beside the lone engine generator's shows when an
\* auxiliary source is available; none is named when neither is.
AuxiliaryChoice(shown) ==
    /\ ExtAvailable => shown = External
    /\ (~ExtAvailable /\ ApuAvailable) => shown = ApuGenerator

NoBusShowsApuGenerator == \A i \in 1..9 : Sources[i] # ApuGenerator

\* C6 as stated: after a tick in which exactly one engine generator n is
\* available, AC BUS n shows EG(n) and the other AC bus shows External if
\* external power is plugged in with EXT PWR on, otherwise ApuGenerator if
\* the APU generator emits with APU GEN on; when external power is
\* selected, no bus shows ApuGenerator.
C6_OneGenPlusAuxiliary_AsStated ==
    /\ (OneGenAvailable /\ Gen1Available) =>
            /\ source(ac_bus_1_output) = EngineGenerator(1)
            /\ AuxiliaryChoice(source(ac_bus_2_output))
    /\ (OneGenAvailable /\ Gen2Available) =>
            /\ source(ac_bus_2_output) = EngineGenerator(2)
            /\ AuxiliaryChoice(source(ac_bus_1_output))
    /\ (OneGenAvailable /\ ExtAvailable) => NoBusShowsApuGenerator

\* C6, amended: the same of each AC bus that has not failed (a failed AC
\* bus shows no source).
C6_OneGenPlusAuxiliary ==
    /\ (OneGenAvailable /\ Gen1Available) =>
            /\ ~elec.ac_bus_1.failed =>
                    source(ac_bus_1_output) = EngineGenerator(1)
            /\ ~elec.ac_bus_2.failed =>
                    AuxiliaryChoice(source(ac_bus_2_output))
            /\ elec.ac_bus_1.failed => is_unpowered(ac_bus_1_output)
            /\ elec.ac_bus_2.failed => is_unpowered(ac_bus_2_output)
    /\ (OneGenAvailable /\ Gen2Available) =>
            /\ ~elec.ac_bus_2.failed =>
                    source(ac_bus_2_output) = EngineGenerator(2)
            /\ ~elec.ac_bus_1.failed =>
                    AuxiliaryChoice(source(ac_bus_1_output))
            /\ elec.ac_bus_1.failed => is_unpowered(ac_bus_1_output)
            /\ elec.ac_bus_2.failed => is_unpowered(ac_bus_2_output)
    /\ (OneGenAvailable /\ ExtAvailable) => NoBusShowsApuGenerator

\* Engine generator 2, external power and the APU generator are available:
\* AC BUS 1 shows External.
C6_Witness ==
    /\ OneGenAvailable /\ Gen2Available /\ ExtAvailable /\ ApuAvailable
    /\ NoFailure
    /\ source(ac_bus_1_output) = External
    /\ source(ac_bus_2_output) = EngineGenerator(2)

NoGenExtAndApuAvailable ==
    /\ Updated /\ ~Gen1Available /\ ~Gen2Available
    /\ ExtAvailable /\ ApuAvailable

ApuAndExtNeverBothClosed ==
    Updated => ~(is_closed(elec.apu_gen_contactor)
                 /\ is_closed(elec.ext_pwr_contactor))

\* C7 as stated: after every tick APU_GEN_CT and EXT_PWR_CT are never both
\* closed, and after a tick in which no engine generator is available while
\* external power and the APU generator are both available, AC BUS 1 and
\* AC BUS 2 both show External.
C7_ExtOutranksApu_AsStated ==
    /\ ApuAndExtNeverBothClosed
    /\ NoGenExtAndApuAvailable =>
            /\ source(ac_bus_1_output) = External
            /\ source(ac_bus_2_output) = External

\* C7, amended: the same of each AC bus that has not failed.
C7_ExtOutranksApu ==
    /\ ApuAndExtNeverBothClosed
    /\ NoGenExtAndApuAvailable =>
            /\ ~elec.ac_bus_1.failed => source(ac_bus_1_output) = External
            /\ ~elec.ac_bus_2.failed => source(ac_bus_2_output) = External
            /\ elec.ac_bus_1.failed => is_unpowered(ac_bus_1_output)
            /\ elec.ac_bus_2.failed => is_unpowered(ac_bus_2_output)

\* No engine runs, external power and the APU generator are both available
\* and external power feeds both AC buses.
C7_Witness ==
    /\ NoGenExtAndApuAvailable
    /\ NoFailure
    /\ is_closed(elec.ext_pwr_contactor) /\ is_open(elec.apu_gen_contactor)
    /\ source(ac_bus_1_output) = External
    /\ source(ac_bus_2_output) = External

\* The one engine generator that is available.
TheAvailableGen ==
    IF Gen1Available THEN EngineGenerator(1) ELSE EngineGenerator(2)

\* C8 as stated: after any tick in which exactly one engine generator is
\* available, both AC BUS 1 and AC BUS 2 show that engine generator as
\* their source.
C8_LoneGenFeedsBothAcBuses_AsStated ==
    OneGenAvailable =>
        /\ source(ac_bus_1_output) = TheAvailableGen
        /\ source(ac_bus_2_output) = TheAvailableGen

\* C8, amended: after any tick in which exactly one engine generator is
\* available and neither external power (plugged in, EXT PWR on) nor the APU
\* generator (emitting, APU GEN on) is available, AC BUS 1 and AC BUS 2,
\* each when not failed, show that engine generator; when external power
\* or the APU generator is available, the engine generator feeds its own
\* AC bus only and the other AC bus is fed by external power or, failing
\* that, by the APU generator.
C8_LoneGenFeedsBothAcBuses ==
    /\ (OneGenAvailable /\ ~ExtAvailable /\ ~ApuAvailable) =>
            /\ ~elec.ac_bus_1.failed =>
                    source(ac_bus_1_output) = TheAvailableGen
            /\ ~elec.ac_bus_2.failed =>
                    source(ac_bus_2_output) = TheAvailableGen
    /\ (OneGenAvailable /\ (ExtAvailable \/ ApuAvailable)) =>
            /\ Gen1Available =>
                    /\ source(elec.ac_bus_1.input) = EngineGenerator(1)
                    /\ AuxiliaryChoice(source(elec.ac_bus_2.input))
            /\ Gen2Available =>
                    /\ source(elec.ac_bus_2.input) = EngineGenerator(2)
                    /\ AuxiliaryChoice(source(elec.ac_bus_1.input))

\* Engine generator 1 alone is available, the APU runs with APU GEN off,
\* and AC BUS 2 is fed by generator 1.
C8_Witness ==
    /\ OneGenAvailable /\ Gen1Available
    /\ ~ExtAvailable /\ ~ApuAvailable /\ ApuRunning
    /\ NoFailure
    /\ source(ac_bus_2_output) = EngineGenerator(1)

\* No bus or TR output shows a source whose pushbutton is off.
OffSourceExcluded ==
    \A i \in 1..9 :
        /\ ~is_on(overhead.gen_1) => Sources[i] # EngineGenerator(1)
        /\ ~is_on(overhead.gen_2) => Sources[i] # EngineGenerator(2)
        /\ ~is_on(overhead.apu_gen) => Sources[i] # ApuGenerator
        /\ ~is_on(overhead.ext_pwr) => Sources[i] # External

\* GEN n off with only engine n running leaves both AC buses unpowered.
OffLoneGenLeavesAcUnpowered ==
    /\ (~is_on(overhead.gen_1) /\ RunningSources = {EngineGenerator(1)}
        /\ ~ext_pwr) =>
            is_unpowered(ac_bus_1_output) /\ is_unpowered(ac_bus_2_output)
    /\ (~is_on(overhead.gen_2) /\ RunningSources = {EngineGenerator(2)}
        /\ ~ext_pwr) =>
            is_unpowered(ac_bus_1_output) /\ is_unpowered(ac_bus_2_output)

BothEnginesRunningOneGenOff(off, on) ==
    /\ ~is_on(off) /\ is_on(on) /\ Engine1Running /\ Engine2Running

\* The generator of the other engine feeds both AC buses.
FedBy(gen) ==
    /\ source(elec.ac_bus_1.input) = gen
    /\ source(elec.ac_bus_2.input) = gen

\* C9 as stated: after any tick, no bus or TR output shows EG(n) while GEN n
\* is off, ApuGenerator while APU GEN is off, or External while EXT PWR is
\* off; GEN 1 off with only engine 1 running leaves AC BUS 1 and AC BUS 2
\* unpowered, and GEN 1 off with both engines running makes EG2 feed both
\* AC buses (symmetrically for GEN 2).
C9_OffSourceExcluded_AsStated ==
    Updated =>
        /\ OffSourceExcluded
        /\ OffLoneGenLeavesAcUnpowered
        /\ BothEnginesRunningOneGenOff(overhead.gen_1, overhead.gen_2) =>
                FedBy(EngineGenerator(2))
        /\ BothEnginesRunningOneGenOff(overhead.gen_2, overhead.gen_1) =>
                FedBy(EngineGenerator(1))

\* C9, amended: the same, the last clause holding when neither external
\* power (plugged in, EXT PWR on) nor the APU generator (emitting, APU GEN
\* on) is available; when one is, it feeds the AC bus of the generator
\* that is off.
C9_OffSourceExcluded ==
    Updated =>
        /\ OffSourceExcluded
        /\ OffLoneGenLeavesAcUnpowered
        /\ (BothEnginesRunningOneGenOff(overhead.gen_1, overhead.gen_2)
            /\ ~ExtAvailable /\ ~ApuAvailable) =>
                FedBy(EngineGenerator(2))
        /\ (BothEnginesRunningOneGenOff(overhead.gen_2, overhead.gen_1)
            /\ ~ExtAvailable /\ ~ApuAvailable) =>
                FedBy(EngineGenerator(1))
        /\ (BothEnginesRunningOneGenOff(overhead.gen_1, overhead.gen_2)
            /\ (ExtAvailable \/ ApuAvailable)) =>
                /\ AuxiliaryChoice(source(elec.ac_bus_1.input))
                /\ source(elec.ac_bus_2.input) = EngineGenerator(2)
        /\ (BothEnginesRunningOneGenOff(overhead.gen_2, overhead.gen_1)
            /\ (ExtAvailable \/ ApuAvailable)) =>
                /\ AuxiliaryChoice(source(elec.ac_bus_2.input))
                /\ source(elec.ac_bus_1.input) = EngineGenerator(1)

\* GEN 1 is off with both engines running and external power plugged in
\* with EXT PWR off: generator 2 feeds AC BUS 1.
C9_Witness ==
    /\ Updated
    /\ BothEnginesRunningOneGenOff(overhead.gen_1, overhead.gen_2)
    /\ ext_pwr /\ ~is_on(overhead.ext_pwr) /\ ~ApuAvailable
    /\ source(ac_bus_1_output) = EngineGenerator(2)

AllSourcesUnavailable ==
    /\ Updated
    /\ ~Gen1Available /\ ~Gen2Available /\ ~ApuAvailable /\ ~ExtAvailable
    /\ ~elec.emergency_gen.running

\* C10: after any sequence of ticks, if in the last tick both engine
\* generators, the APU generator and external power are all unavailable
\* (and the emergency generator has not been started), AC BUS 1 and
\* AC BUS 2 are unpowered.
C10_NoAcWhenForbidden ==
    AllSourcesUnavailable =>
        is_unpowered(ac_bus_1_output) /\ is_unpowered(ac_bus_2_output)

\* Engine 1 and the APU run and external power is plugged in, with GEN 1,
\* APU GEN and EXT PWR all off.
C10_Witness ==
    /\ AllSourcesUnavailable
    /\ Engine1Running /\ ApuRunning /\ ext_pwr
    /\ NoFailure
    /\ is_unpowered(ac_bus_1_output) /\ is_unpowered(ac_bus_2_output)

\* The outputs of the six buses.
BusOutputs ==
    {ac_bus_1_output, ac_bus_2_output, ac_ess_bus_output,
     dc_bus_1_output, dc_bus_2_output, dc_bat_bus_output}

\* The raw generator a source names was emitting in the last tick.
RawGeneratorEmits(src) ==
    CASE src = EngineGenerator(1) -> Engine1Running
      [] src = EngineGenerator(2) -> Engine2Running
      [] src = ApuGenerator -> ApuRunning
      [] src = External -> ext_pwr
      [] src = EmergencyGenerator -> elec.emergency_gen.running /\ hyd
      [] OTHER -> FALSE

\* C11: after any sequence of ticks and failure injections, every bus whose
\* output is powered reports a source that is one of EngineGenerator(1),
\* EngineGenerator(2), ApuGenerator, External, EmergencyGenerator, and the
\* raw generator identified by that source was emitting in the last tick.
C11_ProvenancePreservation ==
    \A current \in BusOutputs :
        is_powered(current) =>
            /\ source(current) \in
                    {EngineGenerator(1), EngineGenerator(2), ApuGenerator,
                     External, EmergencyGenerator}
            /\ RawGeneratorEmits(source(current))

\* AC BUS 1 was failed after a tick in which generator 1 fed it: DC BUS 1
\* still shows generator 1, which is emitting.
C11_Witness ==
    /\ pc = "injected" /\ elec.ac_bus_1.failed
    /\ source(dc_bus_1_output) = EngineGenerator(1)
    /\ source(ac_ess_bus_output) = EngineGenerator(1)

\* AC BUS 1 was unpowered in the last tick; ac_bus_1_loss.elapsed is the time
\* accumulated since the tick in which it became unpowered.
AcBus1StaysUnpowered == Updated /\ ac_bus_1_loss.unpowered

AcEssBusFedFromAcBus2 ==
    /\ is_powered(ac_ess_bus_output)
    /\ source(ac_ess_bus_output) = source(ac_bus_2_output)

EmergencyGeneratorEmits == elec.emergency_gen.running /\ hyd

\* C12 as stated: if AC BUS 1 becomes unpowered in some tick (t = 0) and
\* stays unpowered, then in every tick at which the time accumulated since
\* that tick is less than 3 s the AC ESS BUS is unpowered, and in every tick
\* at which it is at least 3 s the AC ESS BUS is fed from AC BUS 2 (it shows
\* AC BUS 2's source) provided AC BUS 2 is powered.
C12_AcEssAutoTransfer_AsStated ==
    AcBus1StaysUnpowered =>
        /\ ac_bus_1_loss.elapsed < AC_ESS_FEED_TO_AC_BUS_2_DELAY_IN_SECONDS =>
                is_unpowered(ac_ess_bus_output)
        /\ (ac_bus_1_loss.elapsed >= AC_ESS_FEED_TO_AC_BUS_2_DELAY_IN_SECONDS
            /\ is_powered(ac_bus_2_output)) =>
                AcEssBusFedFromAcBus2

\* C12, amended: while AC BUS 1 stays unpowered and AC BUS 2 is powered, the
\* AC ESS BUS is unpowered as long as less than 3 s have accumulated and
\* AC ESS FEED is at NORMAL, and is fed from AC BUS 2 once 3 s have
\* accumulated or as soon as AC ESS FEED is at ALTN; while AC BUS 2 is
\* unpowered too, the AC ESS BUS shows EmergencyGenerator if the emergency
\* generator emits and is unpowered otherwise.
C12_AcEssAutoTransfer ==
    AcBus1StaysUnpowered =>
        /\ (is_powered(ac_bus_2_output)
            /\ ac_bus_1_loss.elapsed < AC_ESS_FEED_TO_AC_BUS_2_DELAY_IN_SECONDS
            /\ is_normal(overhead.ac_ess_feed)) =>
                is_unpowered(ac_ess_bus_output)
        /\ (is_powered(ac_bus_2_output)
            /\ (ac_bus_1_loss.elapsed
                    >= AC_ESS_FEED_TO_AC_BUS_2_DELAY_IN_SECONDS
                \/ is_altn(overhead.ac_ess_feed))) =>
                AcEssBusFedFromAcBus2
        /\ (is_unpowered(ac_bus_2_output) /\ EmergencyGeneratorEmits) =>
                source(ac_ess_bus_output) = EmergencyGenerator
        /\ (is_unpowered(ac_bus_2_output) /\ ~EmergencyGeneratorEmits) =>
                is_unpowered(ac_ess_bus_output)

\* AC BUS 1 has failed with both engines running and AC ESS FEED at NORMAL:
\* 2 s after, the AC ESS BUS is still unpowered.
C12_Witness ==
    /\ AcBus1StaysUnpowered /\ elec.ac_bus_1.failed
    /\ Engine1Running /\ Engine2Running
    /\ is_normal(overhead.ac_ess_feed)
    /\ ac_bus_1_loss.elapsed = 2
    /\ is_unpowered(ac_ess_bus_output)

\* The same, 3 s after: the AC ESS BUS is fed from AC BUS 2.
C12_WitnessTransferred ==
    /\ AcBus1StaysUnpowered /\ elec.ac_bus_1.failed
    /\ is_normal(overhead.ac_ess_feed)
    /\ ac_bus_1_loss.elapsed = 3
    /\ source(ac_ess_bus_output) = EngineGenerator(2)

\* The last tick found the AC ESS feed transferred to AC BUS 2 and is the
\* first in which AC BUS 1 is powered again.
FirstTickWithAcBus1Back == Updated /\ ac_bus_1_loss.reverted

\* C13: after the AC ESS feed has transferred to AC BUS 2, the first tick in
\* which AC BUS 1 is powered again with AC ESS FEED in NORMAL ends with
\* AC ESS BUS showing AC BUS 1's source, AC ESS feed contactor 1 closed and
\* contactor 2 open, whatever dt that tick has; with AC ESS FEED in ALTN the
\* AC ESS BUS stays on AC BUS 2.
C13_ImmediateRevert ==
    FirstTickWithAcBus1Back =>
        /\ is_normal(overhead.ac_ess_feed) =>
                /\ is_powered(ac_ess_bus_output)
                /\ source(ac_ess_bus_output) = source(ac_bus_1_output)
                /\ is_closed(elec.ac_ess_feed_contactor_1)
                /\ is_open(elec.ac_ess_feed_contactor_2)
        /\ is_altn(overhead.ac_ess_feed) =>
                /\ is_open(elec.ac_ess_feed_contactor_1)
                /\ source(ac_ess_bus_output) = source(ac_bus_2_output)
                /\ is_powered(ac_bus_2_output) =>
                        /\ is_closed(elec.ac_ess_feed_contactor_2)
                        /\ is_powered(ac_ess_bus_output)

\* AC BUS 1 is back after a transfer, with AC ESS FEED in NORMAL and both
\* engine generators feeding their buses: the AC ESS BUS shows generator 1.
C13_Witness ==
    /\ FirstTickWithAcBus1Back
    /\ is_normal(overhead.ac_ess_feed)
    /\ source(ac_bus_2_output) = EngineGenerator(2)
    /\ source(ac_ess_bus_output) = EngineGenerator(1)

\* The same with AC ESS FEED in ALTN: the AC ESS BUS shows generator 2.
C13_WitnessAltn ==
    /\ FirstTickWithAcBus1Back
    /\ is_altn(overhead.ac_ess_feed)
    /\ source(ac_bus_1_output) = EngineGenerator(1)
    /\ source(ac_ess_bus_output) = EngineGenerator(2)

\* C14: after any tick in which AC ESS FEED is in ALTN and AC BUS 2 is
\* powered, AC ESS feed contactor 2 is closed, contactor 1 is open and
\* AC ESS BUS shows AC BUS 2's source, in that same tick and without any
\* delay, even when AC BUS 1 is powered.
C14_AltnSelection ==
    (Updated /\ is_altn(overhead.ac_ess_feed) /\ is_powered(ac_bus_2_output))
        =>  /\ is_closed(elec.ac_ess_feed_contactor_2)
            /\ is_open(elec.ac_ess_feed_contactor_1)
            /\ AcEssBusFedFromAcBus2

\* ALTN was selected for this very tick, with both AC buses powered by
\* their own generators.
C14_Witness ==
    /\ Updated /\ is_altn(overhead.ac_ess_feed)
    /\ source(ac_bus_1_output) = EngineGenerator(1)
    /\ source(ac_bus_2_output) = EngineGenerator(2)
    /\ ~ac_bus_1_loss.unpowered /\ ac_bus_1_loss.elapsed = 0
    /\ source(ac_ess_bus_output) = EngineGenerator(2)

\* C17: after any tick, the AC ESS to TR ESS contactor is closed iff TR 1 or
\* TR 2 is failed or has an unpowered output; when it is closed and AC ESS
\* BUS is powered, TR ESS is powered with the same source as AC ESS BUS;
\* when TR 1 and TR 2 are both healthy and powered, TR ESS is unpowered.
C17_TrEssRerouting ==
    Updated =>
        /\ is_closed(elec.ac_ess_to_tr_ess_contactor)
                <=> \/ elec.tr_1.failed \/ is_unpowered(tr_1_output)
                    \/ elec.tr_2.failed \/ is_unpowered(tr_2_output)
        /\ (is_closed(elec.ac_ess_to_tr_ess_contactor) /\ is_powered(ac_ess_bus_output))
                =>  /\ is_powered(tr_ess_output)
                    /\ source(tr_ess_output) = source(ac_ess_bus_output)
        /\ (/\ ~elec.tr_1.failed /\ is_powered(tr_1_output)
            /\ ~elec.tr_2.failed /\ is_powered(tr_2_output))
                => is_unpowered(tr_ess_output)

\* TR 1 has failed while both engine generators feed their buses: TR ESS is
\* powered by generator 1 through AC ESS BUS.
C17_Witness ==
    /\ Updated
    /\ elec.tr_1.failed /\ ~elec.tr_2.failed
    /\ is_powered(tr_2_output)
    /\ is_closed(elec.ac_ess_to_tr_ess_contactor)
    /\ source(ac_ess_bus_output) = EngineGenerator(1)
    /\ tr_ess_output = Direct(EngineGenerator(1))

\* TR 2 is healthy and unpowered beside a powered TR 1: TR ESS is powered.
C17_WitnessUnpowered ==
    /\ Updated
    /\ ~elec.tr_1.failed /\ ~elec.tr_2.failed
    /\ is_powered(tr_1_output) /\ is_unpowered(tr_2_output)
    /\ is_closed(elec.ac_ess_to_tr_ess_contactor)
    /\ is_powered(tr_ess_output)

\* Both are healthy and powered: TR ESS is unpowered beside a powered AC ESS
\* BUS.
C17_WitnessNormal ==
    /\ Updated
    /\ ~elec.tr_1.failed /\ is_powered(tr_1_output)
    /\ ~elec.tr_2.failed /\ is_powered(tr_2_output)
    /\ is_powered(ac_ess_bus_output)
    /\ is_open(elec.ac_ess_to_tr_ess_contactor)
    /\ is_unpowered(tr_ess_output)

battery_1_input == elec.battery_1.input

battery_2_input == elec.battery_2.input

\* Battery n is charged as the statement says.
BatteryCharging(battery, battery_contactor) ==
    /\ is_closed(battery_contactor) <=> ~battery.full
    /\ battery.full => is_unpowered(battery.input)
    /\ ~battery.full => battery.input = dc_bat_bus_output

\* C18: after any tick, for n in {1, 2}, the battery n contactor is closed
\* iff battery n is not full; a full battery's charging input is unpowered
\* even when DC BAT BUS is powered, and a not-full battery's charging input
\* equals the DC BAT BUS output.
C18_BatteryCharging ==
    Updated =>
        /\ BatteryCharging(elec.battery_1, elec.battery_1_contactor)
        /\ BatteryCharging(elec.battery_2, elec.battery_2_contactor)

\* Battery 1 is empty and charged by generator 1 through DC BAT BUS while
\* the full battery 2 draws nothing.
C18_Witness ==
    /\ Updated
    /\ ~elec.battery_1.full /\ elec.battery_2.full
    /\ dc_bat_bus_output = Direct(EngineGenerator(1))
    /\ battery_1_input = Direct(EngineGenerator(1))
    /\ is_closed(elec.battery_1_contactor)
    /\ is_unpowered(battery_2_input)
    /\ is_open(elec.battery_2_contactor)

\* An empty battery beside an unpowered DC BAT BUS: its contactor is closed
\* and its charging input is unpowered.
C18_WitnessUnpowered ==
    /\ Updated
    /\ ~elec.battery_2.full
    /\ is_unpowered(dc_bat_bus_output)
    /\ is_closed(elec.battery_2_contactor)
    /\ is_unpowered(battery_2_input)

\* The circuit and the panel are as constructed: nothing was called yet.
NewlyConstructed == pc = "new"

Contactors ==
    {elec.engine_1_gen_contactor, elec.engine_2_gen_contactor,
     elec.bus_tie_1_contactor, elec.bus_tie_2_contactor,
     elec.apu_gen_contactor, elec.ext_pwr_contactor,
     elec.ac_ess_feed_contactor_1, elec.ac_ess_feed_contactor_2,
     elec.ac_ess_to_tr_ess_contactor, elec.emergency_gen_contactor,
     elec.dc_bus_1_tie_contactor, elec.dc_bus_2_tie_contactor,
     elec.battery_1_contactor, elec.battery_2_contactor}

Buses ==
    {elec.ac_bus_1, elec.ac_bus_2, elec.ac_ess_bus,
     elec.dc_bus_1, elec.dc_bus_2, elec.dc_bat_bus}

TransformerRectifiers == {elec.tr_1, elec.tr_2, elec.tr_ess}

GeneratorOutputs ==
    {elec.engine_1_gen.output, elec.engine_2_gen.output, elec.apu_gen.output,
     EmergencyGenerator_output(elec.emergency_gen)}

OnOffPushButtons ==
    {overhead.bat_1, overhead.bat_2, overhead.idg_1, overhead.idg_2,
     overhead.gen_1, overhead.gen_2, overhead.apu_gen, overhead.bus_tie,
     overhead.galy_and_cab, overhead.ext_pwr, overhead.commercial}

\* C19: a newly constructed circuit has every contactor open, both batteries
\* full, no bus or TR failed, the delay gate with a false expression and no
\* accumulated duration, and every bus, TR and generator output unpowered
\* before the first tick; a newly constructed overhead panel has every
\* On/Off pushbutton On and AC ESS FEED in NORMAL.
C19_InitialState ==
    NewlyConstructed =>
        /\ \A each \in Contactors : is_open(each)
        /\ elec.battery_1.full /\ elec.battery_2.full
        /\ \A bus \in Buses : ~bus.failed
        /\ \A tr \in TransformerRectifiers : ~tr.failed
        /\ ~elec.ac_ess_feed_contactor_delay_logic_gate.expression_result
        /\ elec.ac_ess_feed_contactor_delay_logic_gate.true_duration = 0
        /\ \A bus \in Buses : is_unpowered(ElectricalBus_output(bus))
        /\ \A tr \in TransformerRectifiers : is_unpowered(TransformerRectifier_output(tr))
        /\ \A output \in GeneratorOutputs : is_unpowered(output)
        /\ \A button \in OnOffPushButtons : is_on(button)
        /\ is_normal(overhead.ac_ess_feed)

\* The constructed circuit before its first tick, beside external power
\* that is not plugged in and engines that are stopped.
C19_Witness ==
    /\ NewlyConstructed
    /\ elec = A320ElectricalCircuit_new
    /\ overhead = A320ElectricalOverheadPanel_new
    /\ ~DelayedTrueLogicGate_output(elec.ac_ess_feed_contactor_delay_logic_gate)

\* What is fed through AC bus n alone is unpowered: TR n and the AC ESS feed
\* contactor n.
FedOnlyThroughIsUnpowered(tr, ac_ess_feed_contactor) ==
    /\ is_unpowered(TransformerRectifier_output(tr))
    /\ is_unpowered(Contactor_output(ac_ess_feed_contactor))

\* C20: while a bus is marked failed its output is None regardless of its
\* input and of how many ticks run, everything fed only through it is
\* unpowered (a failed AC BUS n leaves TR n unpowered although generator n
\* emits), and after normal() the bus output equals its input again at the
\* next tick.
C20_BusFailureInjection ==
    /\ \A bus \in Buses : bus.failed => ElectricalBus_output(bus) = CurrentNone
    /\ (Updated /\ elec.ac_bus_1.failed)
            => FedOnlyThroughIsUnpowered(elec.tr_1, elec.ac_ess_feed_contactor_1)
    /\ (Updated /\ elec.ac_bus_2.failed)
            => FedOnlyThroughIsUnpowered(elec.tr_2, elec.ac_ess_feed_contactor_2)
    /\ \A bus \in Buses : (Updated /\ ~bus.failed) => ElectricalBus_output(bus) = bus.input

\* AC BUS 1 is failed while generator 1 emits and feeds it: the bus has a
\* powered input and no output, and TR 1 is unpowered.
C20_Witness ==
    /\ Updated
    /\ elec.ac_bus_1.failed
    /\ elec.engine_1_gen.output = Alternating(EngineGenerator(1))
    /\ elec.ac_bus_1.input = Alternating(EngineGenerator(1))
    /\ is_unpowered(ac_bus_1_output)
    /\ is_unpowered(tr_1_output)

\* The same for AC BUS 2 and TR 2.
C20_WitnessAcBus2 ==
    /\ Updated
    /\ elec.ac_bus_2.failed
    /\ elec.ac_bus_2.input = Alternating(EngineGenerator(2))
    /\ is_unpowered(ac_bus_2_output)
    /\ is_unpowered(tr_2_output)

\* AC BUS 1 was failed for 3 s and more, normal() was called and a tick has
\* run: the bus outputs its input again and TR 1 is powered.
C20_WitnessNormal ==
    /\ FirstTickWithAcBus1Back
    /\ ~elec.ac_bus_1.failed
    /\ ac_bus_1_output = Alternating(EngineGenerator(1))
    /\ ac_bus_1_output = elec.ac_bus_1.input
    /\ tr_1_output = Direct(EngineGenerator(1))

---------------------------------------------------------------------------
(* The delay gate against the updates it was given *)

\* The expression given at update i; false before the first update.
ExpressionAt(i) == i >= 1 /\ updates[i][2]

\* The first update of the unbroken run of true expressions that the
\* latest update belongs to.
RECURSIVE RunStart(_)
RunStart(i) == IF ExpressionAt(i - 1) THEN RunStart(i - 1) ELSE i

\* The sum of the deltas of the updates i+1 .. j.
RECURSIVE DeltaSum(_, _)
DeltaSum(i, j) == IF j <= i THEN 0 ELSE DeltaSum(i, j - 1) + updates[j][1]

LatestUpdate == Len(updates)

\* The latest update is the one in which the expression becomes true.
ExpressionBecameTrue ==
    /\ ExpressionAt(LatestUpdate)
    /\ ~ExpressionAt(LatestUpdate - 1)

\* C15: in an update where the expression is true but was false at the
\* previous update (or the gate is new), true_duration is 0 after the
\* update whatever dt; with a delay of 1.0 s the updates (0.9, true) and
\* (0.2, true) leave the output false.
C15_NoSpuriousAdvance ==
    /\ ExpressionBecameTrue => logic_gate.true_duration = 0
    /\ (logic_gate.delay = 10 /\ updates = << <<9, TRUE>>, <<2, TRUE>> >>)
            => ~DelayedTrueLogicGate_output(logic_gate)

\* The expression becomes true in an update with a delta as long as the
\* delay, after an earlier run of true has been broken.
C15_Witness ==
    /\ logic_gate.delay = 10
    /\ updates = << <<0, TRUE>>, <<10, TRUE>>, <<1, FALSE>>, <<10, TRUE>> >>
    /\ logic_gate.true_duration = 0
    /\ ~DelayedTrueLogicGate_output(logic_gate)

\* The example of the statement.
C15_WitnessExample ==
    /\ logic_gate.delay = 10
    /\ updates = << <<9, TRUE>>, <<2, TRUE>> >>
    /\ logic_gate.true_duration = 2

\* C16: the gate's output is true iff the expression was true at the latest
\* update and the sum of the dt of all updates after the first update of
\* the current unbroken run of true is at least the delay; the output is
\* false as soon as the latest expression is false.
C16_DelayGateOutputContract ==
    /\ DelayedTrueLogicGate_output(logic_gate)
            <=> /\ ExpressionAt(LatestUpdate)
                /\ DeltaSum(RunStart(LatestUpdate), LatestUpdate) >= logic_gate.delay
    /\ ~ExpressionAt(LatestUpdate) => ~DelayedTrueLogicGate_output(logic_gate)

\* The output is true in a second run of true, on the deltas of that run
\* alone.
C16_Witness ==
    /\ logic_gate.delay = 10
    /\ updates = << <<10, TRUE>>, <<0, FALSE>>, <<9, TRUE>>, <<10, TRUE>> >>
    /\ DelayedTrueLogicGate_output(logic_gate)

\* The output is false at once when the expression is false, after the
\* delay has passed.
C16_WitnessFalse ==
    /\ logic_gate.delay = 1
    /\ updates = << <<0, TRUE>>, <<10, TRUE>>, <<0, FALSE>> >>
    /\ ~DelayedTrueLogicGate_output(logic_gate)

\* The step is an update of the gate with a negative delta.
UpdateWithNegativeDelta ==
    /\ Len(updates') = Len(updates) + 1
    /\ updates'[Len(updates')][1] < 0

\* C21: a negative dt is a contract violation that fails eagerly: a
\* delay-gate update given a negative time delta is rejected and leaves no
\* state changed, rather than being applied to the gate's accumulated
\* duration.
C21_NegativeDtRejected ==
    [][UpdateWithNegativeDelta => logic_gate' = logic_gate]_vars

\* The gate was given (0, true) and then (-1.0 s, true): the negative delta
\* was added to the accumulated duration.
C21_Witness ==
    /\ updates = << <<0, TRUE>>, <<-10, TRUE>> >>
    /\ logic_gate.true_duration = -10

BothAcBusesLost ==
    is_unpowered(ac_bus_1_output) /\ is_unpowered(ac_bus_2_output)

\* C22: after every tick, AC ESS feed contactor 1 is closed only if AC BUS 1
\* output is powered and AC ESS feed contactor 2 is closed only if AC BUS 2
\* output is powered; so when AC BUS 1 and AC BUS 2 are both lost, both
\* AC ESS feed contactors are open.
C22_AcEssFeedContactorsFollowTheirBus ==
    Updated =>
        /\ is_closed(elec.ac_ess_feed_contactor_1) => is_powered(ac_bus_1_output)
        /\ is_closed(elec.ac_ess_feed_contactor_2) => is_powered(ac_bus_2_output)
        /\ BothAcBusesLost =>
                /\ is_open(elec.ac_ess_feed_contactor_1)
                /\ is_open(elec.ac_ess_feed_contactor_2)

\* Both AC buses are failed while both engine generators emit, AC BUS 1 for
\* 3 s and more so that the gate asks for the transfer: both AC ESS feed
\* contactors are open.
C22_Witness ==
    /\ Updated
    /\ elec.ac_bus_1.failed /\ elec.ac_bus_2.failed
    /\ elec.ac_bus_1.input = Alternating(EngineGenerator(1))
    /\ elec.ac_bus_2.input = Alternating(EngineGenerator(2))
    /\ DelayedTrueLogicGate_output(elec.ac_ess_feed_contactor_delay_logic_gate)
    /\ is_open(elec.ac_ess_feed_contactor_1)
    /\ is_open(elec.ac_ess_feed_contactor_2)

\* C23: after any tick in which AC BUS 1 and AC BUS 2 are both unpowered
\* (including both failed while both engine generators emit) and the
\* emergency generator is not emitting, AC ESS BUS and TR ESS are unpowered.
C23_NothingBackFeedsAcEss ==
    (Updated /\ BothAcBusesLost /\ ~EmergencyGeneratorEmits)
        =>  /\ is_unpowered(ac_ess_bus_output)
            /\ is_unpowered(tr_ess_output)

\* Both AC buses are failed while both engine generators emit and the
\* emergency generator was started without blue hydraulic pressure.
C23_Witness ==
    /\ Updated
    /\ elec.ac_bus_1.failed /\ elec.ac_bus_2.failed
    /\ elec.engine_1_gen.output = Alternating(EngineGenerator(1))
    /\ elec.engine_2_gen.output = Alternating(EngineGenerator(2))
    /\ elec.emergency_gen.running /\ ~hyd
    /\ is_unpowered(ac_ess_bus_output)
    /\ is_unpowered(tr_ess_output)

\* The same with an emergency generator that was never started.
C23_WitnessNotStarted ==
    /\ Updated
    /\ elec.ac_bus_1.failed /\ elec.ac_bus_2.failed
    /\ elec.engine_1_gen.output = Alternating(EngineGenerator(1))
    /\ ~elec.emergency_gen.running /\ hyd
    /\ is_closed(elec.emergency_gen_contactor)
    /\ is_unpowered(ac_ess_bus_output)

\* The circuit as another tick with the same inputs, the same failure flags
\* and dt = 0 would leave it.
ReEvaluated == update(elec, 0, engine1, engine2, apu, ext_pwr, hyd, overhead)

ContactorStates(circuit) ==
    <<circuit.engine_1_gen_contactor.state, circuit.engine_2_gen_contactor.state,
      circuit.bus_tie_1_contactor.state, circuit.bus_tie_2_contactor.state,
      circuit.apu_gen_contactor.state, circuit.ext_pwr_contactor.state,
      circuit.ac_ess_feed_contactor_1.state, circuit.ac_ess_feed_contactor_2.state,
      circuit.ac_ess_to_tr_ess_contactor.state, circuit.emergency_gen_contactor.state,
      circuit.dc_bus_1_tie_contactor.state, circuit.dc_bus_2_tie_contactor.state,
      circuit.battery_1_contactor.state, circuit.battery_2_contactor.state>>

BusAndTrOutputs(circuit) ==
    <<ElectricalBus_output(circuit.ac_bus_1), ElectricalBus_output(circuit.ac_bus_2),
      ElectricalBus_output(circuit.ac_ess_bus),
      TransformerRectifier_output(circuit.tr_1), TransformerRectifier_output(circuit.tr_2),
      TransformerRectifier_output(circuit.tr_ess),
      ElectricalBus_output(circuit.dc_bus_1), ElectricalBus_output(circuit.dc_bus_2),
      ElectricalBus_output(circuit.dc_bat_bus)>>

\* C24: a tick with dt = 0 is a pure re-evaluation: once a tick has run with
\* some inputs, another tick with the same inputs, the same failure flags
\* and dt = 0 changes no contactor state, no bus or TR output and no
\* delay-gate state.
C24_ZeroDtReEvaluates ==
    Updated =>
        /\ ContactorStates(ReEvaluated) = ContactorStates(elec)
        /\ BusAndTrOutputs(ReEvaluated) = BusAndTrOutputs(elec)
        /\ ReEvaluated.ac_ess_feed_contactor_delay_logic_gate
                = elec.ac_ess_feed_contactor_delay_logic_gate

\* The same of every field of the circuit, the latched inputs included.
ZeroDtChangesNothing == Updated => ReEvaluated = elec

\* A tick has left AC BUS 1 failed for 3 s, the AC ESS feed transferred to
\* AC BUS 2 and DC BUS 1 fed through the DC ties: a tick of dt = 0 leaves
\* all of it.
C24_Witness ==
    /\ Updated
    /\ elec.ac_bus_1.failed
    /\ elec.ac_ess_feed_contactor_delay_logic_gate.true_duration = AC_ESS_FEED_TO_AC_BUS_2_DELAY_IN_SECONDS
    /\ is_closed(elec.ac_ess_feed_contactor_2)
    /\ dc_bus_1_output = Direct(EngineGenerator(2))
    /\ ReEvaluated = elec

\* What a generator emits for a sample, in tenths of a percent: alternating
\* current of its own source strictly above 57.5 %.
EmitsAbove575(sample, src) ==
    IF sample > 575 THEN Alternating(src) ELSE CurrentNone

\* C28: after each update an engine generator emits alternating current with
\* source EngineGenerator(n) iff the engine's N2 in that update is strictly
\* greater than 57.5 % (exactly 57.5 % gives no output), and the APU
\* generator emits iff APU speed is strictly greater than 57.5 %; the output
\* depends only on the latest sample, not on earlier ones.
C28_GeneratorThresholds ==
    Updated =>
        /\ elec.engine_1_gen.output = EmitsAbove575(engine1, EngineGenerator(1))
        /\ elec.engine_2_gen.output = EmitsAbove575(engine2, EngineGenerator(2))
        /\ elec.apu_gen.output = EmitsAbove575(apu, ApuGenerator)

\* Engine 1 at exactly 57.5 % gives nothing, engine 2 at 57.6 % emits, the
\* APU at 57.5 % gives nothing.
C28_Witness ==
    /\ Updated
    /\ engine1 = 575 /\ elec.engine_1_gen.output = CurrentNone
    /\ engine2 = 576 /\ elec.engine_2_gen.output = Alternating(EngineGenerator(2))
    /\ apu = 575 /\ elec.apu_gen.output = CurrentNone

\* The APU at 57.6 % emits beside two engines below the threshold.
C28_WitnessApu ==
    /\ Updated
    /\ engine1 = 565 /\ engine2 = 0
    /\ apu = 576 /\ elec.apu_gen.output = Alternating(ApuGenerator)
    /\ source(ac_bus_1_output) = ApuGenerator

---------------------------------------------------------------------------
(* The contactor against the calls it was given *)

Toggled == last_call.op = "toggle"

PoweredBy == last_call.op = "powered_by"

\* The first output of the list that is powered, None when there is none.
FirstPowered(outputs) ==
    LET powered == {i \in DOMAIN outputs : outputs[i].kind # "None"}
    IN  IF powered = {} THEN CurrentNone
        ELSE outputs[CHOOSE i \in powered : \A j \in powered : i <= j]

\* C25: for every contactor state and latched input, output() equals the
\* input (same current type and same source) when the contactor is Closed
\* and None when it is Open; a closed contactor whose feeders are all
\* unpowered or whose feeder list is empty outputs None.
C25_ContactorGating ==
    /\ contactor.state = "Closed" => Contactor_output(contactor) = contactor.input
    /\ contactor.state = "Open" => Contactor_output(contactor) = CurrentNone
    /\ (PoweredBy /\ contactor.state = "Closed"
            /\ \A i \in DOMAIN last_call.arg : last_call.arg[i] = CurrentNone)
            => Contactor_output(contactor) = CurrentNone

\* A closed contactor fed by Powerless and a direct current of external
\* power outputs that current.
C25_Witness ==
    /\ PoweredBy
    /\ last_call.arg = <<CurrentNone, Direct(External)>>
    /\ contactor.state = "Closed"
    /\ Contactor_output(contactor) = Direct(External)

\* An open contactor with a powered input outputs nothing.
C25_WitnessOpen ==
    /\ contactor.state = "Open"
    /\ contactor.input = Alternating(ApuGenerator)
    /\ Contactor_output(contactor) = CurrentNone

\* A closed contactor powered by nothing, and by nothing that is powered.
C25_WitnessNothing ==
    /\ PoweredBy
    /\ last_call.arg \in {<<>>, <<CurrentNone>>}
    /\ last_call.before.input = Alternating(ApuGenerator)
    /\ contactor.state = "Closed"
    /\ Contactor_output(contactor) = CurrentNone

\* C26: after toggle(b) the state is Closed iff b is true, whatever the
\* previous state was (so toggle(b) applied twice equals toggle(b) applied
\* once), and toggle never changes the latched input.
C26_ToggleSets ==
    Toggled =>
        /\ contactor.state = "Closed" <=> last_call.arg
        /\ toggle(contactor, last_call.arg) = contactor
        /\ contactor.input = last_call.before.input

\* A closed contactor with a powered input was toggled open.
C26_Witness ==
    /\ Toggled /\ ~last_call.arg
    /\ last_call.before.state = "Closed"
    /\ last_call.before.input = Alternating(EngineGenerator(1))
    /\ contactor = [state |-> "Open", input |-> Alternating(EngineGenerator(1))]

\* A closed contactor was toggled closed.
C26_WitnessStays ==
    /\ Toggled /\ last_call.arg
    /\ last_call.before.state = "Closed"
    /\ contactor.state = "Closed"

\* C27: powered_by(feeders) sets the node's input to the output of the first
\* feeder in list order whose output is not None, and to None when the list
\* is empty or every feeder is unpowered; it overwrites whatever input was
\* latched before.
C27_FeederResolution ==
    PoweredBy =>
        /\ contactor.input = FirstPowered(last_call.arg)
        /\ (last_call.arg = <<>>
                \/ \A i \in DOMAIN last_call.arg : last_call.arg[i] = CurrentNone)
                => contactor.input = CurrentNone
        /\ contactor.state = last_call.before.state

\* Two powered feeders: the first in list order wins over the input latched
\* before.
C27_Witness ==
    /\ PoweredBy
    /\ last_call.arg = <<Direct(ApuGenerator), Alternating(EngineGenerator(1))>>
    /\ last_call.before.input = Alternating(ApuGenerator)
    /\ contactor.input = Direct(ApuGenerator)

\* A powered input is overwritten by None when every feeder is unpowered.
C27_WitnessOverwritten ==
    /\ PoweredBy
    /\ last_call.arg = <<CurrentNone, CurrentNone>>
    /\ last_call.before.input = Direct(External)
    /\ contactor.input = CurrentNone

---------------------------------------------------------------------------
(* C29: the emergency generator's start latch *)

EmergencyGeneratorOutput == EmergencyGenerator_output(elec.emergency_gen)

EmergencyGeneratorHasEmitted ==
    EmergencyGeneratorOutput = Alternating(EmergencyGenerator)

\* attempt_start() is called in this step.
AttemptStartCalled == elec' = [elec EXCEPT !.emergency_gen = attempt_start(@)]

\* The start has been attempted: only attempt_start() records it, and
\* nothing takes it back.
StartLatch ==
    /\ elec.emergency_gen.running => elec'.emergency_gen.running
    /\ (~elec.emergency_gen.running /\ elec'.emergency_gen.running)
            => AttemptStartCalled

\* C29: the emergency generator never emits before attempt_start() has been
\* called; once it has been called, the call is never taken back, and in
\* every later tick the generator emits, with source EmergencyGenerator, if
\* and only if the blue hydraulic circuit is pressurised in that tick, so it
\* stops when the pressure is lost and resumes when it returns, without a new
\* start attempt.
C29_EmergencyGeneratorStartLatch ==
    /\ [](~elec.emergency_gen.running => EmergencyGeneratorOutput = CurrentNone)
    /\ []((Updated /\ elec.emergency_gen.running) =>
            /\ hyd <=> EmergencyGeneratorHasEmitted
            /\ ~hyd <=> EmergencyGeneratorOutput = CurrentNone)
    /\ [][StartLatch]_vars

\* Started, ticked without blue pressure: the generator does not emit.
C29_WitnessPressureLost ==
    /\ Updated
    /\ elec.emergency_gen.running
    /\ ~hyd
    /\ EmergencyGeneratorOutput = CurrentNone

\* Started, ticked with blue pressure: the generator emits, and as both AC
\* buses are lost it feeds the AC ESS BUS.
C29_Witness ==
    /\ Updated
    /\ elec.emergency_gen.running
    /\ hyd
    /\ EmergencyGeneratorHasEmitted
    /\ BothAcBusesLost
    /\ source(ElectricalBus_output(elec.ac_ess_bus)) = EmergencyGenerator

\* Not started, ticked with blue pressure: the generator does not emit.
C29_WitnessNotStarted ==
    /\ Updated
    /\ ~elec.emergency_gen.running
    /\ hyd
    /\ elec.emergency_gen.is_blue_pressurised
    /\ EmergencyGeneratorOutput = CurrentNone

---------------------------------------------------------------------------
(* C30: the place of the delay gate in a tick *)

\* This step is a tick.
TickStep == pc' = "updated"

GateBeforeTheTick == elec.ac_ess_feed_contactor_delay_logic_gate

GateAfterTheTick == elec'.ac_ess_feed_contactor_delay_logic_gate

\* The AC ESS feed contactors are left by the tick as their toggles decide
\* with this gate, AC BUS 1 and AC BUS 2 as resolved in the tick and
\* AC ESS FEED as sampled in it.
FeedTogglesRead(gate) ==
    /\ is_closed(elec'.ac_ess_feed_contactor_1) <=>
            (/\ is_powered(ElectricalBus_output(elec'.ac_bus_1))
             /\ ~DelayedTrueLogicGate_output(gate)
             /\ is_normal(overhead'.ac_ess_feed))
    /\ is_closed(elec'.ac_ess_feed_contactor_2) <=>
            (/\ is_powered(ElectricalBus_output(elec'.ac_bus_2))
             /\ (DelayedTrueLogicGate_output(gate)
                 \/ is_altn(overhead'.ac_ess_feed)))

\* The tick advances the gate once, by its time step, with AC BUS 1 as
\* resolved in the tick.
GateAdvancedOnce ==
    \E dt \in FineDts :
        GateAfterTheTick =
            DelayedTrueLogicGate_update(GateBeforeTheTick, dt,
                is_unpowered(ElectricalBus_output(elec'.ac_bus_1)))

\* C30, as stated: the AC ESS feed delay gate is advanced as the last step
\* of the tick, after every contactor has been toggled and every feeder list
\* has been resolved: the AC ESS feed contactors are toggled with the gate as
\* the previous tick left it.
C30_GateAdvancedLast_AsStated ==
    [][TickStep => (GateAdvancedOnce /\ FeedTogglesRead(GateBeforeTheTick))]_vars

\* C30, amended: the AC ESS feed delay gate is advanced once in a tick, after
\* AC BUS 1, AC BUS 2, TR 1 and TR 2 have been resolved and before the
\* AC ESS feed contactors are toggled: the toggles read the gate as advanced
\* in this tick.
C30_GateAdvancedBeforeTheFeedToggles ==
    [][TickStep => (GateAdvancedOnce /\ FeedTogglesRead(GateAfterTheTick))]_vars

\* AC BUS 1 has been unpowered for exactly the delay with AC ESS FEED at
\* NORMAL: the gate has just reached its delay and AC ESS feed contactor 2 is
\* closed already.
C30_Witness ==
    /\ Updated
    /\ is_normal(overhead.ac_ess_feed)
    /\ ac_bus_1_loss.unpowered
    /\ ac_bus_1_loss.elapsed = AC_ESS_FEED_TO_AC_BUS_2_DELAY_IN_SECONDS
    /\ elec.ac_ess_feed_contactor_delay_logic_gate.true_duration
            = AC_ESS_FEED_TO_AC_BUS_2_DELAY_IN_SECONDS
    /\ DelayedTrueLogicGate_output(elec.ac_ess_feed_contactor_delay_logic_gate)
    /\ is_closed(elec.ac_ess_feed_contactor_2)
    /\ is_open(elec.ac_ess_feed_contactor_1)

---------------------------------------------------------------------------
(* C31: the transfer timer restarts on any interruption *)

CircuitGate == elec.ac_ess_feed_contactor_delay_logic_gate

\* C31: if the gate's expression is false in an update, its accumulated
\* duration is reset to 0: after every tick the gate holds the time
\* accumulated since the latest loss of AC BUS 1, whatever wait a powered
\* tick interrupted before; with AC ESS FEED at NORMAL the AC ESS BUS is
\* transferred to AC BUS 2 only once 3 s have accumulated from the new loss,
\* never from the sum of the two partial waits.
C31_TransferTimerRestarts ==
    Updated =>
        /\ ~ac_bus_1_loss.unpowered =>
                (CircuitGate.true_duration = 0 /\ ~CircuitGate.expression_result)
        /\ ac_bus_1_loss.unpowered =>
                CircuitGate.true_duration = ac_bus_1_loss.elapsed
        /\ (/\ ac_bus_1_loss.unpowered
            /\ is_normal(overhead.ac_ess_feed)
            /\ ac_bus_1_loss.elapsed < AC_ESS_FEED_TO_AC_BUS_2_DELAY_IN_SECONDS) =>
                /\ is_open(elec.ac_ess_feed_contactor_2)
                /\ ~AcEssBusFedFromAcBus2
        /\ (/\ ac_bus_1_loss.unpowered
            /\ is_powered(ac_bus_2_output)
            /\ ac_bus_1_loss.elapsed >= AC_ESS_FEED_TO_AC_BUS_2_DELAY_IN_SECONDS) =>
                AcEssBusFedFromAcBus2

\* A wait of 2 s was interrupted by a tick with AC BUS 1 powered; AC BUS 1
\* has been lost again for 2 s: 4 s in all, and no transfer.
C31_Witness ==
    /\ Updated
    /\ transfer_wait.interrupted = 2
    /\ ac_bus_1_loss.unpowered
    /\ ac_bus_1_loss.elapsed = 2
    /\ is_normal(overhead.ac_ess_feed)
    /\ is_powered(ac_bus_2_output)
    /\ is_unpowered(ac_ess_bus_output)

\* The same, 3 s after the new loss: the AC ESS BUS is fed from AC BUS 2.
C31_WitnessTransferred ==
    /\ Updated
    /\ transfer_wait.interrupted = 2
    /\ ac_bus_1_loss.unpowered
    /\ ac_bus_1_loss.elapsed = AC_ESS_FEED_TO_AC_BUS_2_DELAY_IN_SECONDS
    /\ is_normal(overhead.ac_ess_feed)
    /\ AcEssBusFedFromAcBus2

\* The tick that interrupts a wait of 2 s: the gate is back at 0.
C31_WitnessReset ==
    /\ Updated
    /\ transfer_wait.interrupted = 2
    /\ ~ac_bus_1_loss.unpowered
    /\ CircuitGate.true_duration = 0

---------------------------------------------------------------------------
(* C32: the DC tie contactors' decisions *)

\* DC BUS n as fed from its own TR in the tick, before any back-feed through
\* the ties (lines 142-143).
DcBus1FromTr1 ==
    ElectricalBus_output(powered_by(elec.dc_bus_1, <<tr_1_output>>))

DcBus2FromTr2 ==
    ElectricalBus_output(powered_by(elec.dc_bus_2, <<tr_2_output>>))

\* C32: after every tick DC BUS 1 tie contactor is closed iff DC BUS 1 or
\* DC BUS 2 is powered and DC BUS 2 tie contactor is closed iff DC BUS 1 or
\* DC BUS 2 is unpowered, the buses taken as fed from their own TR in that
\* tick: tie 1 alone is closed when both are TR-fed, tie 2 alone when neither
\* is, and both when exactly one is.
C32_DcTieContactorDecisions ==
    Updated =>
        /\ is_closed(elec.dc_bus_1_tie_contactor) <=>
                (is_powered(DcBus1FromTr1) \/ is_powered(DcBus2FromTr2))
        /\ is_closed(elec.dc_bus_2_tie_contactor) <=>
                (is_unpowered(DcBus1FromTr1) \/ is_unpowered(DcBus2FromTr2))
        /\ (is_powered(DcBus1FromTr1) /\ is_powered(DcBus2FromTr2)) =>
                /\ is_closed(elec.dc_bus_1_tie_contactor)
                /\ is_open(elec.dc_bus_2_tie_contactor)
        /\ (is_unpowered(DcBus1FromTr1) /\ is_unpowered(DcBus2FromTr2)) =>
                /\ is_open(elec.dc_bus_1_tie_contactor)
                /\ is_closed(elec.dc_bus_2_tie_contactor)
        /\ (is_powered(DcBus1FromTr1) # is_powered(DcBus2FromTr2)) =>
                /\ is_closed(elec.dc_bus_1_tie_contactor)
                /\ is_closed(elec.dc_bus_2_tie_contactor)

\* TR 1 has failed and TR 2 feeds DC BUS 2: both ties are closed and DC BUS 1
\* is back-fed with the source of DC BUS 2.
C32_Witness ==
    /\ Updated
    /\ elec.tr_1.failed
    /\ is_unpowered(DcBus1FromTr1) /\ is_powered(DcBus2FromTr2)
    /\ is_closed(elec.dc_bus_1_tie_contactor)
    /\ is_closed(elec.dc_bus_2_tie_contactor)
    /\ is_powered(dc_bus_1_output)

\* Both DC buses are fed from their TR: tie 1 alone is closed.
C32_WitnessBoth ==
    /\ Updated
    /\ is_powered(DcBus1FromTr1) /\ is_powered(DcBus2FromTr2)
    /\ is_closed(elec.dc_bus_1_tie_contactor)
    /\ is_open(elec.dc_bus_2_tie_contactor)

\* Neither is: tie 2 alone is closed.
C32_WitnessNeither ==
    /\ Updated
    /\ is_unpowered(DcBus1FromTr1) /\ is_unpowered(DcBus2FromTr2)
    /\ is_open(elec.dc_bus_1_tie_contactor)
    /\ is_closed(elec.dc_bus_2_tie_contactor)

---------------------------------------------------------------------------
(* C33: no hysteresis *)

\* The circuit after a tick of dt in which the host has changed `which`.
TickOf(circuit, which, dt) ==
    update(circuit, dt,
           IF which = "engine1" THEN other_ratio(engine1, running_engine) ELSE engine1,
           IF which = "engine2" THEN other_ratio(engine2, running_engine) ELSE engine2,
           IF which = "apu" THEN other_ratio(apu, running_apu) ELSE apu,
           IF which = "ext_pwr" THEN ~ext_pwr ELSE ext_pwr,
           IF which = "hyd" THEN ~hyd ELSE hyd,
           changed_overhead(overhead, which))

\* A circuit with no tick behind it that has the delay gate, the failure
\* flags, the batteries' full or empty state and the emergency generator's
\* start latch of the given one.
WithoutHistory(circuit) ==
    [A320ElectricalCircuit_new EXCEPT
        !.ac_ess_feed_contactor_delay_logic_gate =
            circuit.ac_ess_feed_contactor_delay_logic_gate,
        !.ac_bus_1.failed = circuit.ac_bus_1.failed,
        !.ac_bus_2.failed = circuit.ac_bus_2.failed,
        !.ac_ess_bus.failed = circuit.ac_ess_bus.failed,
        !.dc_bus_1.failed = circuit.dc_bus_1.failed,
        !.dc_bus_2.failed = circuit.dc_bus_2.failed,
        !.dc_bat_bus.failed = circuit.dc_bat_bus.failed,
        !.tr_1.failed = circuit.tr_1.failed,
        !.tr_2.failed = circuit.tr_2.failed,
        !.tr_ess.failed = circuit.tr_ess.failed,
        !.battery_1.full = circuit.battery_1.full,
        !.battery_2.full = circuit.battery_2.full,
        !.emergency_gen.running = circuit.emergency_gen.running]

\* All contactor states and all bus, TR and battery-input currents.
Observed(circuit) ==
    <<ContactorStates(circuit), BusAndTrOutputs(circuit),
      circuit.battery_1.input, circuit.battery_2.input>>

\* C33: apart from the delay gate, a tick's result does not depend on
\* history: a circuit with any tick history and the circuit without history
\* that has its delay-gate state, failure flags, battery states and
\* emergency-generator start latch end a tick with identical inputs and dt
\* with identical contactor states and identical bus, TR and battery-input
\* currents; any two circuits equal on those four are thereby equal after the
\* tick.
C33_NoHysteresis ==
    \A which \in HistoryInputs, dt \in Dts :
        Observed(TickOf(elec, which, dt))
            = Observed(TickOf(WithoutHistory(elec), which, dt))

\* AC BUS 1 has failed and the AC ESS feed has transferred, battery 1 is
\* charging: contactors are closed and buses powered that are
\* not in the circuit without history, and one tick brings that one to the
\* same contactors and currents.
C33_Witness ==
    /\ Updated
    /\ elec.ac_bus_1.failed
    /\ is_closed(elec.ac_ess_feed_contactor_2)
    /\ is_closed(elec.battery_1_contactor)
    /\ is_powered(elec.battery_1.input)
    /\ is_powered(dc_bat_bus_output)
    /\ Observed(WithoutHistory(elec)) # Observed(elec)
    /\ Observed(TickOf(WithoutHistory(elec), "none", 0)) = Observed(elec)

---------------------------------------------------------------------------
(* C34: the AC ESS feed contactors are mutually exclusive *)

\* C34: after every tick, for every input, pushbutton position, failure
\* combination and gate state, AC ESS feed contactors 1 and 2 are never both
\* closed, so that AC BUS 1 and AC BUS 2 are never connected together through
\* the AC ESS BUS.
C34_AcEssFeedContactorsExclusive ==
    ~(is_closed(elec.ac_ess_feed_contactor_1)
        /\ is_closed(elec.ac_ess_feed_contactor_2))

\* AC BUS 1 and AC BUS 2 are both powered with AC ESS FEED at ALTN:
\* contactor 2 alone is closed.
C34_Witness ==
    /\ Updated
    /\ is_powered(ac_bus_1_output) /\ is_powered(ac_bus_2_output)
    /\ is_altn(overhead.ac_ess_feed)
    /\ is_open(elec.ac_ess_feed_contactor_1)
    /\ is_closed(elec.ac_ess_feed_contactor_2)

\* The same at NORMAL: contactor 1 alone is closed.
C34_WitnessNormal ==
    /\ Updated
    /\ is_powered(ac_bus_1_output) /\ is_powered(ac_bus_2_output)
    /\ is_normal(overhead.ac_ess_feed)
    /\ is_closed(elec.ac_ess_feed_contactor_1)
    /\ is_open(elec.ac_ess_feed_contactor_2)

---------------------------------------------------------------------------
(* C35: no paralleling of AC sources *)

\* The closed ones among the four source contactors.
ClosedSourceContactors ==
    {name \in {"engine_1_gen", "engine_2_gen", "apu_gen", "ext_pwr"} :
        CASE name = "engine_1_gen" -> is_closed(elec.engine_1_gen_contactor)
          [] name = "engine_2_gen" -> is_closed(elec.engine_2_gen_contactor)
          [] name = "apu_gen" -> is_closed(elec.apu_gen_contactor)
          [] name = "ext_pwr" -> is_closed(elec.ext_pwr_contactor)}

BothBusTiesClosed ==
    is_closed(elec.bus_tie_1_contactor) /\ is_closed(elec.bus_tie_2_contactor)

\* The sources connected through closed contactors to the line between the
\* bus ties, and from there or from its own generator to AC BUS 1 and
\* AC BUS 2 (the feeder lists of lines 103-116).
SourcesOnTheTieLine ==
    (ClosedSourceContactors \cap {"apu_gen", "ext_pwr"})
    \cup (IF is_closed(elec.bus_tie_1_contactor)
          THEN ClosedSourceContactors \cap {"engine_1_gen"} ELSE {})
    \cup (IF is_closed(elec.bus_tie_2_contactor)
          THEN ClosedSourceContactors \cap {"engine_2_gen"} ELSE {})

SourcesOnAcBus1 ==
    (ClosedSourceContactors \cap {"engine_1_gen"})
    \cup (IF is_closed(elec.bus_tie_1_contactor) THEN SourcesOnTheTieLine ELSE {})

SourcesOnAcBus2 ==
    (ClosedSourceContactors \cap {"engine_2_gen"})
    \cup (IF is_closed(elec.bus_tie_2_contactor) THEN SourcesOnTheTieLine ELSE {})

\* C35: after every tick at most two of the engine 1 generator, engine 2
\* generator, APU generator and external power contactors are closed, and
\* whenever bus tie contactors 1 and 2 are both closed exactly one of those
\* four is closed, so that two different sources are never connected to the
\* same AC bus.
C35_NoParallelingOfAcSources ==
    /\ Cardinality(ClosedSourceContactors) <= 2
    /\ BothBusTiesClosed => Cardinality(ClosedSourceContactors) = 1
    /\ Cardinality(SourcesOnAcBus1) <= 1
    /\ Cardinality(SourcesOnAcBus2) <= 1

\* Engine 1 generator and external power are both available: two source
\* contactors are closed, bus tie 2 alone is closed, each AC bus has its one
\* source.
C35_Witness ==
    /\ Updated
    /\ ClosedSourceContactors = {"engine_1_gen", "ext_pwr"}
    /\ is_open(elec.bus_tie_1_contactor)
    /\ is_closed(elec.bus_tie_2_contactor)
    /\ SourcesOnAcBus1 = {"engine_1_gen"}
    /\ SourcesOnAcBus2 = {"ext_pwr"}
    /\ apu > APU_SPEED_POWER_OUTPUT_THRESHOLD /\ is_on(overhead.apu_gen)

\* The APU generator alone is available: both bus ties are closed and its
\* contactor is the one closed.
C35_WitnessBothTies ==
    /\ Updated
    /\ BothBusTiesClosed
    /\ ClosedSourceContactors = {"apu_gen"}
    /\ SourcesOnAcBus1 = {"apu_gen"} /\ SourcesOnAcBus2 = {"apu_gen"}

---------------------------------------------------------------------------
(* C36: the transfer timer runs on AC BUS 1 alone *)

\* C36: the gate accumulates time whenever AC BUS 1 is unpowered, whatever
\* AC BUS 2 and AC ESS FEED are: after every tick it holds the time
\* accumulated since the loss of AC BUS 1; if AC BUS 1 has been unpowered for
\* an accumulated 3 s or more while AC BUS 2 was unpowered too, the first
\* tick in which AC BUS 2 is powered with AC BUS 1 still unpowered feeds the
\* AC ESS BUS from AC BUS 2 in that same tick.
C36_TransferTimerRunsOnAcBus1Alone ==
    Updated =>
        /\ CircuitGate.expression_result = ac_bus_1_loss.unpowered
        /\ CircuitGate.expression_result = is_unpowered(ac_bus_1_output)
        /\ ac_bus_1_loss.unpowered =>
                CircuitGate.true_duration = ac_bus_1_loss.elapsed
        /\ transfer_wait.both =>
                CircuitGate.true_duration >= transfer_wait.both_lost
        /\ (/\ transfer_wait.ac_bus_2_back
            /\ transfer_wait.both_lost >= AC_ESS_FEED_TO_AC_BUS_2_DELAY_IN_SECONDS) =>
                /\ is_closed(elec.ac_ess_feed_contactor_2)
                /\ AcEssBusFedFromAcBus2

\* A cold aircraft with AC BUS 1 failed: 3 s have accumulated with both AC
\* buses unpowered and AC ESS FEED at NORMAL; in the tick in which engine 2
\* brings AC BUS 2 back the AC ESS BUS is fed from it.
C36_Witness ==
    /\ Updated
    /\ transfer_wait.ac_bus_2_back
    /\ transfer_wait.both_lost = AC_ESS_FEED_TO_AC_BUS_2_DELAY_IN_SECONDS
    /\ elec.ac_bus_1.failed
    /\ is_unpowered(ac_bus_1_output) /\ is_powered(ac_bus_2_output)
    /\ is_normal(overhead.ac_ess_feed)
    /\ source(ac_ess_bus_output) = EngineGenerator(2)

\* The gate has accumulated 3 s with AC BUS 2 unpowered and AC ESS FEED at
\* ALTN.
C36_WitnessAltn ==
    /\ Updated
    /\ transfer_wait.both
    /\ is_unpowered(ac_bus_2_output)
    /\ is_altn(overhead.ac_ess_feed)
    /\ CircuitGate.true_duration = AC_ESS_FEED_TO_AC_BUS_2_DELAY_IN_SECONDS
    /\ DelayedTrueLogicGate_output(CircuitGate)

---------------------------------------------------------------------------
(* C37: ALTN has no fallback to AC BUS 1 *)

\* C37: after any tick in which AC ESS FEED is at ALTN, AC ESS feed
\* contactor 1 is open; with AC BUS 1 powered and AC BUS 2 unpowered the
\* AC ESS BUS is then unpowered, for as long as ALTN stays selected.
C37_AltnHasNoFallbackToAcBus1 ==
    (Updated /\ is_altn(overhead.ac_ess_feed)) =>
        /\ is_open(elec.ac_ess_feed_contactor_1)
        /\ Contactor_output(elec.ac_ess_feed_contactor_1) = CurrentNone
        /\ (is_powered(ac_bus_1_output) /\ is_unpowered(ac_bus_2_output)) =>
                is_unpowered(ac_ess_bus_output)

\* AC BUS 2 has failed, AC BUS 1 is powered by engine generator 1, AC ESS
\* FEED is at ALTN and the emergency generator is started with blue
\* pressure: the AC ESS BUS is unpowered.
C37_Witness ==
    /\ Updated
    /\ is_altn(overhead.ac_ess_feed)
    /\ elec.ac_bus_2.failed
    /\ source(ac_bus_1_output) = EngineGenerator(1)
    /\ is_unpowered(ac_bus_2_output)
    /\ EmergencyGeneratorEmits
    /\ is_open(elec.ac_ess_feed_contactor_1)
    /\ is_open(elec.ac_ess_feed_contactor_2)
    /\ is_unpowered(ac_ess_bus_output)

---------------------------------------------------------------------------
(* C38: the emergency generator is confined to the essential network *)

\* The outputs that must never show the emergency generator.
OutsideTheEssentialNetwork ==
    {ac_bus_1_output, ac_bus_2_output, tr_1_output, tr_2_output,
     dc_bus_1_output, dc_bus_2_output, dc_bat_bus_output}

\* C38: after every tick the emergency generator contactor is closed iff
\* AC BUS 1 and AC BUS 2 are both unpowered; the AC ESS BUS or TR ESS shows
\* EmergencyGenerator only if both AC buses are unpowered, a running
\* emergency generator being ignored while any AC bus is powered; AC BUS 1,
\* AC BUS 2, TR 1, TR 2, DC BUS 1, DC BUS 2 and DC BAT BUS never show
\* EmergencyGenerator.
C38_EmergencyGeneratorConfined ==
    Updated =>
        /\ is_closed(elec.emergency_gen_contactor) <=>
                (is_unpowered(ac_bus_1_output) /\ is_unpowered(ac_bus_2_output))
        /\ (source(ac_ess_bus_output) = EmergencyGenerator
            \/ source(tr_ess_output) = EmergencyGenerator) =>
                (is_unpowered(ac_bus_1_output) /\ is_unpowered(ac_bus_2_output))
        /\ \A output \in OutsideTheEssentialNetwork :
                source(output) # EmergencyGenerator

\* The emergency generator emits while AC BUS 2 is powered and AC BUS 1 has
\* failed: its contactor is open and neither the AC ESS BUS nor TR ESS shows
\* it.
C38_Witness ==
    /\ Updated
    /\ EmergencyGeneratorEmits
    /\ EmergencyGeneratorHasEmitted
    /\ elec.ac_bus_1.failed
    /\ is_powered(ac_bus_2_output)
    /\ is_open(elec.emergency_gen_contactor)
    /\ source(ac_ess_bus_output) # EmergencyGenerator
    /\ source(tr_ess_output) # EmergencyGenerator

\* Both AC buses are lost and the emergency generator emits: its contactor
\* is closed, the AC ESS BUS and TR ESS show it, the DC buses show nothing.
C38_WitnessBothLost ==
    /\ Updated
    /\ EmergencyGeneratorHasEmitted
    /\ is_unpowered(ac_bus_1_output) /\ is_unpowered(ac_bus_2_output)
    /\ is_closed(elec.emergency_gen_contactor)
    /\ source(ac_ess_bus_output) = EmergencyGenerator
    /\ source(tr_ess_output) = EmergencyGenerator
    /\ is_unpowered(dc_bat_bus_output)

---------------------------------------------------------------------------
(* C39: a tick does not touch injected state *)

\* What fail(), normal(), empty_battery_n and attempt_start() set: the failed
\* flag of every bus and TR, the full or empty state of both batteries, the
\* emergency generator's start latch.
InjectedState(circuit) ==
    <<circuit.ac_bus_1.failed, circuit.ac_bus_2.failed, circuit.ac_ess_bus.failed,
      circuit.dc_bus_1.failed, circuit.dc_bus_2.failed, circuit.dc_bat_bus.failed,
      circuit.tr_1.failed, circuit.tr_2.failed, circuit.tr_ess.failed,
      circuit.battery_1.full, circuit.battery_2.full,
      circuit.emergency_gen.running>>

\* C39: update never changes the failed flag of any bus or TR, the full or
\* empty state of either battery, or the emergency generator's start latch:
\* a failure injected before a tick is still in force after any number of
\* ticks, until normal() is called, and a battery that is not full stays so,
\* with its contactor closed, however long it is charged.
C39_TickKeepsInjectedState ==
    /\ [][TickStep => InjectedState(elec') = InjectedState(elec)]_vars
    /\ [](Updated =>
            /\ ~elec.battery_1.full => is_closed(elec.battery_1_contactor)
            /\ ~elec.battery_2.full => is_closed(elec.battery_2_contactor))

\* AC BUS 1 has been failed for 3 s of ticks, TR 1 has failed, the emergency
\* generator is started and battery 1, not full, is charging from the
\* DC BAT BUS: all of that is as injected.
C39_Witness ==
    /\ Updated
    /\ elec.ac_bus_1.failed
    /\ ac_bus_1_loss.elapsed = AC_ESS_FEED_TO_AC_BUS_2_DELAY_IN_SECONDS
    /\ elec.tr_1.failed
    /\ elec.emergency_gen.running
    /\ ~elec.battery_1.full /\ elec.battery_2.full
    /\ is_closed(elec.battery_1_contactor)
    /\ is_powered(elec.battery_1.input)
    /\ is_open(elec.battery_2_contactor)

====
